---------------------------- MODULE Spec2Model ----------------------------
(***************************************************************************)
(* A model of the content scoring and insight engine of red-insight:       *)
(* the count normalizer (analytics.py, rankings.py, regional.py), the      *)
(* engagement distribution, the hot-word ranker and the deduplication of   *)
(* the ranking generator.                                                  *)
(*                                                                         *)
(* A Python str is a sequence of one-character tokens.  The characters     *)
(* outside ASCII are written as tokens: "WAN" is U+4E07, "QIAN" is U+5343. *)
(* A Python exception is an outcome record [kind |-> "raise", ...].        *)
(***************************************************************************)
EXTENDS Integers, Sequences, FiniteSets

VARIABLES
    value,      \* the argument of the count normalizer
    parsed,     \* outcome of each copy of the normalizer on value
    reparsed,   \* outcome of _parse_number(str(_parse_number(value)))
    posts,      \* the post collection handed to the analytics service
    distribution, \* outcome of analyze_engagement_distribution(posts)
    hot_words,  \* outcome of analyze_hot_words(posts)
    quality,    \* outcome of calculate_quality_scores(posts)
    report,     \* outcome of generate_report(posts, keyword)
    extracted,  \* what the scraper extracts from the page, per search
    request,    \* the arguments of the ranking or city request
    all_posts,  \* the posts the request collected from its searches
    unique_posts, \* the posts that survived deduplication
    ranking,    \* outcome of get_ranking(ranking_type, max_items)
    analysis,   \* outcome of analyze_city(city, topic, max_posts)
    score_input, \* the likes and the strategy of the posts scored
    score_calls, \* the comment counts scored so far, each with its score
    api_request, \* the ranking request sent to the API or parsed by the agent
    api_response, \* outcome of the /api/ranking handler on api_request
    agent_type, \* outcome of the agent's _parse_ranking_type on the label
    keyword_posts, \* the cohorts handed to compare_keywords, by keyword
    comparison, \* outcome of compare_keywords(keyword_posts)
    site,      \* what the search page of the site shows, by keyword
    scraper,   \* the browser and the page of the scraper of the ranking service
    browsers,  \* every browser a search may launch: not launched, open or closed
    pages,     \* every page a search may open: its browser and the keyword it shows
    tasks,     \* the invocations of get_ranking on the one ranking service
    relevance, \* outcome of _calculate_relevance(post, city), with its arguments
    execution_steps,
                \* the steps kept by the agent of one session
    chats,      \* the chat calls on that agent: position, intent, response
    pc          \* which operation the caller has run on its input

vars == <<value, parsed, reparsed, posts, distribution, hot_words, quality, report,
          extracted, request, all_posts, unique_posts, ranking, analysis, pc,
          score_input, score_calls, api_request, api_response, agent_type,
          keyword_posts, comparison, site, scraper, browsers, pages, tasks, relevance,
          execution_steps, chats>>

normVars == <<value, parsed, reparsed>>
analyticsVars == <<posts, distribution, hot_words, quality, report>>
serviceVars == <<extracted, request, all_posts, unique_posts, ranking, analysis>>
scoreVars == <<score_input, score_calls>>
apiVars == <<api_request, api_response, agent_type>>
compareVars == <<keyword_posts, comparison>>
scraperVars == <<site, scraper, browsers, pages, tasks>>
relevanceVars == <<relevance>>
chatVars == <<execution_steps, chats>>

---------------------------------------------------------------------------
(* Bounds of the model *)

MaxLen == 4
MaxDistPosts == 6
MaxWordPosts == 3
MaxScorePosts == 2
MaxViralPosts == 3

---------------------------------------------------------------------------
(* Python str primitives *)

Digits == {"0", "1", "2", "3", "4", "5", "6", "7", "8", "9"}

DigitVal(c) ==
    CASE c = "0" -> 0 [] c = "1" -> 1 [] c = "2" -> 2 [] c = "3" -> 3
      [] c = "4" -> 4 [] c = "5" -> 5 [] c = "6" -> 6 [] c = "7" -> 7
      [] c = "8" -> 8 [] c = "9" -> 9

DigitChar(d) ==
    CASE d = 0 -> "0" [] d = 1 -> "1" [] d = 2 -> "2" [] d = 3 -> "3"
      [] d = 4 -> "4" [] d = 5 -> "5" [] d = 6 -> "6" [] d = 7 -> "7"
      [] d = 8 -> "8" [] d = 9 -> "9"

\* str.lower() on one character
LowerChar(c) ==
    CASE c = "W" -> "w" [] c = "K" -> "k" [] c = "A" -> "a" [] c = "O" -> "o"
      [] c = "H" -> "h" [] c = "T" -> "t"
      [] OTHER -> c

Lower(s) == [i \in 1..Len(s) |-> LowerChar(s[i])]

\* c.isspace(): what str.strip() removes; "FS" is U+001C, the first of the
\* four separators U+001C..U+001F
IsSpace(c) == c \in {" ", "FS"}

RECURSIVE LStrip(_)
LStrip(s) ==
    IF s # <<>> /\ IsSpace(Head(s)) THEN LStrip(Tail(s)) ELSE s

RECURSIVE RStrip(_)
RStrip(s) ==
    IF s # <<>> /\ IsSpace(s[Len(s)]) THEN RStrip(SubSeq(s, 1, Len(s) - 1)) ELSE s

\* str.strip()
Strip(s) == RStrip(LStrip(s))

\* c in s
Contains(s, c) == \E i \in 1..Len(s) : s[i] = c

Range(s) == {s[i] : i \in 1..Len(s)}

\* max(s) of a non-empty sequence of integers
SeqMax(s) == CHOOSE x \in {s[i] : i \in 1..Len(s)} : \A i \in 1..Len(s) : s[i] <= x

\* needle in text
IsSubstring(needle, text) ==
    \E i \in 0..(Len(text) - Len(needle)) :
        SubSeq(text, i + 1, i + Len(needle)) = needle

\* Body of a value that is computed once, as a local variable is
With(v, Body(_)) == Body(v)

\* the value a table of <<key, value>> pairs holds for a key
Lookup(table, key) == (CHOOSE r \in table : r[1] = key)[2]

\* the characters of s that satisfy Keep, in order
RECURSIVE SelectChars(_, _)
SelectChars(s, keep) ==
    IF s = <<>> THEN <<>>
    ELSE IF Head(s) \in keep THEN <<Head(s)>> \o SelectChars(Tail(s), keep)
         ELSE SelectChars(Tail(s), keep)

\* s.replace(c, '')
Remove(s, c) == SelectChars(s, {s[i] : i \in 1..Len(s)} \ {c})

\* the value of a string of ASCII digits; int('') raises ValueError
RECURSIVE DigitsToNat(_)
DigitsToNat(s) ==
    IF s = <<>> THEN 0
    ELSE 10 * DigitsToNat(SubSeq(s, 1, Len(s) - 1)) + DigitVal(s[Len(s)])

RECURSIVE NatToDigits(_)
NatToDigits(n) ==
    IF n < 10 THEN <<DigitChar(n)>>
    ELSE Append(NatToDigits(n \div 10), DigitChar(n % 10))

\* str(n) of an int
IntToStr(n) == IF n < 0 THEN <<"-">> \o NatToDigits(-n) ELSE NatToDigits(n)

RECURSIVE Pow10(_)
Pow10(n) == IF n = 0 THEN 1 ELSE 10 * Pow10(n - 1)

---------------------------------------------------------------------------
(* IEEE-754 binary64 arithmetic on naturals written as bit sequences, most  *)
(* significant bit first: what float(s) * 10000 and int() compute.          *)

MantBits == 53
LimbBits == 10
FloatScaleLimbs == 8

RECURSIVE Pow2(_)
Pow2(n) == IF n = 0 THEN 1 ELSE 2 * Pow2(n - 1)

LimbBase == Pow2(LimbBits)

Zeros(n) == [i \in 1..(IF n > 0 THEN n ELSE 0) |-> 0]

\* a natural as limbs of LimbBits bits, most significant first
RECURSIVE NatToLimbs(_)
NatToLimbs(n) ==
    IF n = 0 THEN <<>> ELSE Append(NatToLimbs(n \div LimbBase), n % LimbBase)

RECURSIVE LimbsToNat(_)
LimbsToNat(l) ==
    IF l = <<>> THEN 0
    ELSE LimbBase * LimbsToNat(SubSeq(l, 1, Len(l) - 1)) + l[Len(l)]

\* bit sequence without its leading zeros
StripZeros(b) ==
    LET ones == {i \in 1..Len(b) : b[i] = 1}
    IN  IF ones = {} THEN <<>>
        ELSE SubSeq(b, CHOOSE i \in ones : \A j \in ones : i <= j, Len(b))

LimbsToBits(l) ==
    StripZeros([i \in 1..(LimbBits * Len(l)) |->
        (l[((i - 1) \div LimbBits) + 1]
            \div Pow2(LimbBits - 1 - ((i - 1) % LimbBits))) % 2])

RECURSIVE LimbOf(_, _, _)
LimbOf(b, from, n) ==
    IF n = 0 THEN 0 ELSE 2 * LimbOf(b, from, n - 1) + b[from + n - 1]

BitsToLimbs(b) ==
    LET n == (Len(b) + LimbBits - 1) \div LimbBits
        padded == Zeros(LimbBits * n - Len(b)) \o b
    IN  [j \in 1..n |-> LimbOf(padded, LimbBits * (j - 1) + 1, LimbBits)]

\* the limbs of (l[1..i] as a number) * k + carry
RECURSIVE MulStep(_, _, _, _)
MulStep(l, i, k, carry) ==
    IF i = 0 THEN NatToLimbs(carry)
    ELSE LET t == l[i] * k + carry
         IN  Append(MulStep(l, i - 1, k, t \div LimbBase), t % LimbBase)

\* b * k, b a bit sequence and k a small integer
MulLimbs(l, k) == LimbsToBits(MulStep(l, Len(l), k, 0))

MulBits(b, k) == MulLimbs(BitsToLimbs(b), k)

\* quotient and remainder of (l[1..i] as a number) by d
RECURSIVE DivStep(_, _, _)
DivStep(l, i, d) ==
    IF i = 0 THEN [q |-> <<>>, r |-> 0]
    ELSE LET p == DivStep(l, i - 1, d)
             t == LimbBase * p.r + l[i]
         IN  [q |-> Append(p.q, t \div d), r |-> t % d]

\* b + 1
IncBits(b) ==
    LET zs == {i \in 1..Len(b) : b[i] = 0}
    IN  IF zs = {} THEN <<1>> \o Zeros(Len(b))
        ELSE LET z == CHOOSE i \in zs : \A j \in zs : j <= i
             IN  [i \in 1..Len(b) |-> IF i < z THEN b[i] ELSE IF i = z THEN 1 ELSE 0]

\* round-to-nearest-even of b (leading bit 1), with sticky the bits below
\* b, to MantBits significant bits: the result is m * 2^sh
RoundBits(b, sticky) ==
    IF Len(b) <= MantBits THEN [m |-> b, sh |-> 0]
    ELSE LET keep == SubSeq(b, 1, MantBits)
             guard == b[MantBits + 1]
             rest == sticky \/ \E i \in (MantBits + 2)..Len(b) : b[i] = 1
             up == guard = 1 /\ (rest \/ keep[MantBits] = 1)
         IN  [m |-> IF up THEN IncBits(keep) ELSE keep, sh |-> Len(b) - MantBits]

\* the double r.m * 2^(e + r.sh) of a rounded bit sequence r
Rounded(r, e) == [m |-> r.m, e |-> e + r.sh]

\* the quotient and remainder of the limbs l by d
DivLimbs(l, d) == DivStep(l, Len(l), d)

\* the double nearest to 2^e times a quotient q of a dividend that was
\* scaled by FloatScaleLimbs limbs
RoundQuotient(q, e) ==
    Rounded(RoundBits(LimbsToBits(q.q), q.r # 0), e - LimbBits * FloatScaleLimbs)

\* n / d of two naturals in double arithmetic: the nearest double, m * 2^e
FloatOfRatio(n, d) ==
    IF n = 0 THEN [m |-> <<>>, e |-> 0]
    ELSE RoundQuotient(DivLimbs(NatToLimbs(n) \o Zeros(FloatScaleLimbs), d), 0)

\* float("<m with f digits after the point>"): the nearest double
FloatOfDecimal(m, f) == FloatOfRatio(m, Pow10(f))

\* x * k in double arithmetic, k a small integer
FloatMul(x, k) == Rounded(RoundBits(MulBits(x.m, k), FALSE), x.e)

\* int(x) of a double x >= 0: truncation
FloatToInt(x) ==
    IF x.e >= 0 THEN LimbsToNat(BitsToLimbs(x.m \o Zeros(x.e)))
    ELSE IF Len(x.m) <= -x.e THEN 0
    ELSE LimbsToNat(BitsToLimbs(SubSeq(x.m, 1, Len(x.m) + x.e)))

\* x / k in double arithmetic, x >= 0 and k a small positive integer
FloatDiv(x, k) ==
    IF x.m = <<>> THEN x
    ELSE RoundQuotient(DivLimbs(BitsToLimbs(x.m) \o Zeros(FloatScaleLimbs), k), x.e)

\* limbs a + b + carry and a - b - borrow (a >= b), on equal lengths
RECURSIVE AddStep(_, _, _, _)
AddStep(a, b, i, carry) ==
    IF i = 0 THEN IF carry = 0 THEN <<>> ELSE <<carry>>
    ELSE LET t == a[i] + b[i] + carry
         IN  Append(AddStep(a, b, i - 1, t \div LimbBase), t % LimbBase)

RECURSIVE SubStep(_, _, _, _)
SubStep(a, b, i, borrow) ==
    IF i = 0 THEN <<>>
    ELSE LET t == a[i] - b[i] - borrow
         IN  Append(SubStep(a, b, i - 1, IF t < 0 THEN 1 ELSE 0),
                    IF t < 0 THEN t + LimbBase ELSE t)

\* a < b for limbs of equal length
LessLimbs(a, b) ==
    \E i \in 1..Len(a) : a[i] < b[i] /\ \A j \in 1..(i - 1) : a[j] = b[j]

PadLimbs(l, n) == Zeros(n - Len(l)) \o l

\* a double with its sign
Signed(neg, x) == [neg |-> neg /\ x.m # <<>>, abs |-> x]
FloatOfInt(n) ==
    Signed(n < 0, FloatOfRatio(IF n < 0 THEN -n ELSE n, 1))

\* the smaller exponent of x and y, that of the other one when one is 0
AlignExp(x, y) ==
    IF x.abs.m = <<>> THEN y.abs.e
    ELSE IF y.abs.m = <<>> THEN x.abs.e
    ELSE IF x.abs.e < y.abs.e THEN x.abs.e ELSE y.abs.e

\* the magnitude of z as limbs, in units of 2^e
Units(z, e) ==
    IF z.abs.m = <<>> THEN <<>> ELSE BitsToLimbs(z.abs.m \o Zeros(z.abs.e - e))

PadTo(e, ux, uy, n) == [e |-> e, x |-> PadLimbs(ux, n), y |-> PadLimbs(uy, n), n |-> n]

PadBoth(e, ux, uy) == PadTo(e, ux, uy, IF Len(ux) > Len(uy) THEN Len(ux) ELSE Len(uy))

AlignedAt(x, y, e) == PadBoth(e, Units(x, e), Units(y, e))

\* the magnitudes of x and y as limbs of one length, in units of 2^e
Aligned(x, y) == AlignedAt(x, y, AlignExp(x, y))

\* the double nearest to the limbs in units of 2^e, with its sign
RoundedSum(neg, r, e) ==
    Signed(neg, [m |-> r.m, e |-> IF r.m = <<>> THEN 0 ELSE e + r.sh])

SumOf(neg, limbs, e) == RoundedSum(neg, RoundBits(LimbsToBits(limbs), FALSE), e)

AddAligned(x, y, a) ==
    IF x.neg = y.neg THEN SumOf(x.neg, AddStep(a.x, a.y, a.n, 0), a.e)
    ELSE IF LessLimbs(a.x, a.y) THEN SumOf(y.neg, SubStep(a.y, a.x, a.n, 0), a.e)
    ELSE SumOf(x.neg, SubStep(a.x, a.y, a.n, 0), a.e)

\* x + y in double arithmetic
FloatAdd(x, y) == AddAligned(x, y, Aligned(x, y))

LessAligned(x, y, a) ==
    IF x.neg # y.neg THEN x.neg
    ELSE IF x.neg THEN LessLimbs(a.y, a.x) ELSE LessLimbs(a.x, a.y)

\* x < y on doubles
FloatLess(x, y) == LessAligned(x, y, Aligned(x, y))

\* the double n * <m with f digits after the point>, n an integer
FloatTimes(n, m, f) ==
    Signed(n < 0, FloatMul(FloatOfDecimal(m, f), IF n < 0 THEN -n ELSE n))

\* the bits below the binary point of a double with exponent e
FractionBits(e) == IF e >= 0 THEN 0 ELSE -e

\* the bits of p * 2^e, at least cut + 1 of them
PaddedBits(p, cut, e) == Zeros(cut + 1 - Len(p)) \o p \o Zeros(IF e > 0 THEN e ELSE 0)

\* h + 0.frac rounded to an integer, a tie goes to the even neighbour
RoundHalf(h, frac, cut) ==
    IF cut > 0 /\ frac[1] = 1 /\ ((\E i \in 2..cut : frac[i] = 1) \/ h % 2 = 1)
    THEN h + 1 ELSE h

RoundAt(bits, cut) ==
    RoundHalf(LimbsToNat(BitsToLimbs(SubSeq(bits, 1, Len(bits) - cut))),
              SubSeq(bits, Len(bits) - cut + 1, Len(bits)), cut)

RoundMagnitude(m, e, digits) ==
    RoundAt(PaddedBits(MulBits(m, Pow10(digits)), FractionBits(e), e), FractionBits(e))

\* round(x, digits), in units of 10^-digits: the exact value of the double
\* is rounded, a tie goes to the even neighbour
FloatRound(x, digits) ==
    IF x.abs.m = <<>> THEN 0
    ELSE IF x.neg THEN -RoundMagnitude(x.abs.m, x.abs.e, digits)
    ELSE RoundMagnitude(x.abs.m, x.abs.e, digits)

\* round(x, 2), in hundredths
FloatRound2(x) == FloatRound(x, 2)

\* n / d of two integers, d # 0, in double arithmetic
FloatQuot(n, d) ==
    Signed((n < 0) # (d < 0),
           FloatOfRatio(IF n < 0 THEN -n ELSE n, IF d < 0 THEN -d ELSE d))

\* x * k, k a small natural
FloatScale(x, k) == Signed(x.neg, FloatMul(x.abs, k))

\* min(x, y) on doubles
FloatMin(x, y) == IF FloatLess(y, x) THEN y ELSE x

\* the double nearest to t tenths
FloatOfTenths(t) == Signed(t < 0, FloatOfDecimal(IF t < 0 THEN -t ELSE t, 1))

\* the double nearest to h hundredths
FloatOfHundredths(h) ==
    Signed(h < 0, FloatOfDecimal(IF h < 0 THEN -h ELSE h, 2))

\* int(x): truncation towards zero
FloatTrunc(x) ==
    IF x.abs.m = <<>> THEN 0
    ELSE IF x.neg THEN -FloatToInt(x.abs) ELSE FloatToInt(x.abs)

---------------------------------------------------------------------------
(* float(s) of Python, on the characters of the model *)

\* the digits before and after the point of an unsigned decimal literal
\* "d+", "d+.", "d+.d+", ".d+"; anything else is no float literal
Unsigned(s) ==
    LET dots == {i \in 1..Len(s) : s[i] = "."}
        alldig(t) == \A i \in 1..Len(t) : t[i] \in Digits
    IN  IF Cardinality(dots) > 1 THEN [ok |-> FALSE]
        ELSE IF dots = {} THEN
            IF s # <<>> /\ alldig(s)
            THEN [ok |-> TRUE, m |-> DigitsToNat(s), f |-> 0]
            ELSE [ok |-> FALSE]
        ELSE LET p == CHOOSE i \in dots : TRUE
                 ip == SubSeq(s, 1, p - 1)
                 fp == SubSeq(s, p + 1, Len(s))
             IN  IF alldig(ip) /\ alldig(fp) /\ Len(ip) + Len(fp) > 0
                 THEN [ok |-> TRUE, m |-> DigitsToNat(ip \o fp), f |-> Len(fp)]
                 ELSE [ok |-> FALSE]

\* float(s): surrounding whitespace is ignored, one sign is allowed
SignedLiteral(neg, u) ==
    IF u.ok THEN [ok |-> TRUE, neg |-> neg, m |-> u.m, f |-> u.f] ELSE [ok |-> FALSE]

StrippedFloat(t) ==
    IF t # <<>> /\ Head(t) \in {"-", "+"}
    THEN SignedLiteral(Head(t) = "-", Unsigned(Tail(t)))
    ELSE SignedLiteral(FALSE, Unsigned(t))

\* the whitespace float() ignores around a literal: the separators
\* U+001C..U+001F are not part of it
IsFloatSpace(c) == c = " "

RECURSIVE FloatLStrip(_)
FloatLStrip(s) ==
    IF s # <<>> /\ IsFloatSpace(Head(s)) THEN FloatLStrip(Tail(s)) ELSE s

RECURSIVE FloatRStrip(_)
FloatRStrip(s) ==
    IF s # <<>> /\ IsFloatSpace(s[Len(s)])
    THEN FloatRStrip(SubSeq(s, 1, Len(s) - 1)) ELSE s

ParseFloat(s) == StrippedFloat(FloatRStrip(FloatLStrip(s)))

Returns(n) == [kind |-> "return", val |-> n]
Raises(e) == [kind |-> "raise", exc |-> e]

\* int(float(s) * k): float() raises ValueError outside any try block
ScaledFloat(p, k) ==
    IF ~p.ok THEN Raises("ValueError")
    ELSE IF p.neg THEN Returns(-FloatToInt(FloatMul(FloatOfDecimal(p.m, p.f), k)))
    ELSE Returns(FloatToInt(FloatMul(FloatOfDecimal(p.m, p.f), k)))

ScaledCount(s, k) == ScaledFloat(ParseFloat(s), k)

\* int(''.join(filter(str.isdigit, s))) or 0, inside try/except
DigitCount(s) ==
    LET ds == SelectChars(s, Digits)
    IN  IF ds = <<>> THEN Returns(0) ELSE Returns(DigitsToNat(ds))

\* the body the three copies share, after the argument was normalised
ParseBody(v) ==
    IF Contains(v, "w") \/ Contains(v, "WAN")
    THEN ScaledCount(Remove(Remove(v, "w"), "WAN"), 10000)
    ELSE IF Contains(v, "k") \/ Contains(v, "QIAN")
    THEN ScaledCount(Remove(Remove(v, "k"), "QIAN"), 1000)
    ELSE DigitCount(v)

None == [isNone |-> TRUE, str |-> <<>>]
Str(s) == [isNone |-> FALSE, str |-> s]

\* not value
Falsy(v) == v.isNone \/ v.str = <<>>

\* AnalyticsService._parse_number
ParseNumber(v) == IF Falsy(v) THEN Returns(0) ELSE ParseBody(Strip(Lower(v.str)))

\* RankingService._parse_likes
ParseLikes(v) == IF Falsy(v) THEN Returns(0) ELSE ParseBody(Lower(v.str))

\* RegionalService._parse_engagement
ParseEngagement(v) == IF Falsy(v) THEN Returns(0) ELSE ParseBody(Lower(v.str))

---------------------------------------------------------------------------
(* The normalizer applied to every short string *)

Alphabet == {"1", "3", ".", "-", "w", "k", " "}

RECURSIVE StringsOfLen(_)
StringsOfLen(n) ==
    IF n = 0 THEN {<<>>}
    ELSE {Append(s, c) : s \in StringsOfLen(n - 1), c \in Alphabet}

Strings == UNION {StringsOfLen(n) : n \in 0..MaxLen}

\* the count strings of the documentation and of the demo posts, and
\* strings with the characters the alphabet leaves out
Samples ==
    { <<"2", ".", "3", "w">>, <<"8", ".", "5", "k">>, <<"1", "2", "3", "4">>,
      <<"1", ".", "8", "w">>, <<"5", ".", "6", "W">>, <<"8", "5", "0", "0">>,
      <<"1", ".", "1", "3", "w">>, <<"3", "2", ".", "3", "k">>,
      <<"2", "WAN">>, <<"1", ".", "5", "QIAN">>, <<"3", "K">>,
      <<"l", "i", "k", "e">>, <<"WAN">>, <<"1", "0", "+">>,
      <<"1", "w", "2", "k">>, <<"-", "1", ".", "5", "w">>,
      <<"FS", "1", "w">>, <<"1", "k", "FS">>, <<"FS", "1", "2">>, <<"FS">> }

Inputs == {None} \cup {Str(s) : s \in Strings \cup Samples}

NotRun == [kind |-> "none"]

\* no search is under way
ScraperIdle ==
    /\ site = NotRun /\ scraper = NotRun /\ browsers = NotRun /\ pages = NotRun
    /\ tasks = NotRun

\* no relevance has been computed
RelevanceIdle == relevance = NotRun

\* no chat call has been made on the agent
ChatIdle == execution_steps = <<>> /\ chats = NotRun

\* no cohorts have been compared
CompareIdle == keyword_posts = NotRun /\ comparison = NotRun

\* no ranking request has been made
ApiIdle == api_request = NotRun /\ api_response = NotRun /\ agent_type = NotRun

\* no post has been scored
ScoreIdle == score_input = NotRun /\ score_calls = <<>>

Init ==
    /\ value \in Inputs
    /\ parsed = [analytics |-> NotRun, rankings |-> NotRun, regional |-> NotRun]
    /\ reparsed = NotRun
    /\ pc = "input"
    /\ posts = <<>>
    /\ distribution = NotRun
    /\ hot_words = NotRun
    /\ quality = NotRun
    /\ report = NotRun
    /\ ChatIdle
    /\ RelevanceIdle
    /\ ScraperIdle
    /\ CompareIdle
    /\ ApiIdle
    /\ ScoreIdle
    /\ extracted = <<>>
    /\ request = NotRun
    /\ all_posts = <<>>
    /\ unique_posts = <<>>
    /\ ranking = NotRun
    /\ analysis = NotRun

\* service._parse_number(value)
CallParseNumber ==
    /\ parsed.analytics = NotRun
    /\ parsed' = [parsed EXCEPT !.analytics = ParseNumber(value)]
    /\ UNCHANGED <<value, reparsed, pc, analyticsVars, serviceVars, scoreVars,
                   apiVars, compareVars, scraperVars, relevanceVars, chatVars>>

\* service._parse_likes(value)
CallParseLikes ==
    /\ parsed.rankings = NotRun
    /\ parsed' = [parsed EXCEPT !.rankings = ParseLikes(value)]
    /\ UNCHANGED <<value, reparsed, pc, analyticsVars, serviceVars, scoreVars,
                   apiVars, compareVars, scraperVars, relevanceVars, chatVars>>

\* service._parse_engagement(value)
CallParseEngagement ==
    /\ parsed.regional = NotRun
    /\ parsed' = [parsed EXCEPT !.regional = ParseEngagement(value)]
    /\ UNCHANGED <<value, reparsed, pc, analyticsVars, serviceVars, scoreVars,
                   apiVars, compareVars, scraperVars, relevanceVars, chatVars>>

\* service._parse_number(str(n)) for the n a first call returned
CallParseAgain ==
    /\ parsed.analytics.kind = "return"
    /\ reparsed = NotRun
    /\ reparsed' = ParseNumber(Str(IntToStr(parsed.analytics.val)))
    /\ UNCHANGED <<value, parsed, pc, analyticsVars, serviceVars, scoreVars,
                   apiVars, compareVars, scraperVars, relevanceVars, chatVars>>

Next ==
    \/ CallParseNumber
    \/ CallParseLikes
    \/ CallParseEngagement
    \/ CallParseAgain

Spec == Init /\ [][Next]_vars

---------------------------------------------------------------------------
(* Posts and text, analytics.py *)

\* a post as scraper.posts_to_dict produces it (the fields the engine reads)
Post(title, content, author, likes, comments, tags) ==
    [title |-> title, content |-> content, author |-> author,
     likes |-> likes, comments |-> comments, tags |-> tags]

\* posts that differ in their counts (engagement 99, 100 and 50000) and in
\* their author
DistPosts ==
    { Post(<<"HU", "FU">>, <<>>, <<"a">>, Str(<<"9", "9">>), Str(<<"0">>), <<>>),
      Post(<<"HU", "FU">>, <<>>, <<"b">>, Str(<<"9", "9">>), Str(<<"1">>), <<>>),
      Post(<<"HU", "FU">>, <<>>, <<>>, Str(<<"5", "w">>), Str(<<"0">>), <<>>) }

\* posts that differ in their text, author and tags, and in their like count
WordTexts ==
    { [title |-> <<"HU", "FU">>, content |-> <<>>, author |-> <<"a">>,
       tags |-> << <<"HU", "FU">> >>],
      [title |-> <<"MIAN", "MIAN", "MIAN">>, content |-> <<>>, author |-> <<"WEI", "ZHI">>,
       tags |-> << <<"x">>, <<"HU", "FU">> >>],
      [title |-> <<"HU", "(fire)", "O", "k">>, content |-> <<"FU", "ZHEN", "DE">>,
       author |-> <<"b">>, tags |-> <<>>] }

WordLikes == { Str(<<"0">>), Str(<<"5">>), Str(<<"-", "1", "k">>) }

WordPosts ==
    { Post(t.title, t.content, t.author, l, Str(<<"0">>), t.tags) :
        t \in WordTexts, l \in WordLikes }

\* posts that differ in their quality score: 44.98 (next to the first of
\* them), 34.1 and 71.4
ScorePosts ==
    { Post(<<"x">>, <<>>, <<"a">>, Str(<<"6">>), Str(<<"1">>),
           << <<"a", "b">>, <<"a", "b">> >>),
      Post(<<>>, <<>>, <<"b">>, Str(<<"1", "0">>), Str(<<"0">>), <<>>),
      Post([i \in 1..29 |-> "x"], <<>>, <<"a">>, Str(<<"1", "0">>), Str(<<"1">>),
           << <<"a", "b">>, <<"a", "b">>, <<"a", "b">> >>) }

\* posts with engagement 5000, in the bucket 5k-1w, and 99
ViralPosts ==
    { Post(<<"HU", "FU">>, <<>>, <<"a">>, Str(<<"5", "k">>), Str(<<"0">>), <<>>),
      Post(<<"HU", "FU">>, <<>>, <<"b">>, Str(<<"9", "9">>), Str(<<"0">>), <<>>) }

\* the posts of the model
ModelPosts == DistPosts \cup WordPosts \cup ScorePosts \cup ViralPosts

\* self._parse_number(s) for the count strings of these posts, computed once
CountStrings == {p.likes : p \in ModelPosts} \cup {p.comments : p \in ModelPosts}

ParseNumberTable == {<<v, ParseNumber(v)>> : v \in CountStrings}

ParsedCount(v) ==
    IF v \in CountStrings THEN Lookup(ParseNumberTable, v) ELSE ParseNumber(v)

\* CJK ideographs of the model: U+62A4 U+80A4 U+9762 U+771F U+7684 U+597D
CJKChars == {"HU", "FU", "MIAN", "ZHEN", "DE", "HAO"}

Letters == {"a", "b", "o", "k", "w", "l", "i", "e", "x", "A", "K", "W", "O"}

\* the entries of STOP_WORDS that an n-gram of 2 to 4 ideographs can equal
\* and that the ideographs of the model can spell: U+771F U+7684
STOP_WORDS == { <<"ZHEN", "DE">> }

\* re.sub(r'[^一-龥a-zA-Z0-9]', ' ', text)
CleanText(text) ==
    [i \in 1..Len(text) |->
        IF text[i] \in CJKChars \cup Letters \cup Digits THEN text[i] ELSE " "]

\* the sliding windows of one length that are no stop word, in order
RECURSIVE NGrams(_, _, _)
NGrams(s, len, i) ==
    IF i + len - 1 > Len(s) THEN <<>>
    ELSE LET word == SubSeq(s, i, i + len - 1)
         IN  (IF word \in STOP_WORDS THEN <<>> ELSE <<word>>) \o NGrams(s, len, i + 1)

\* re.findall(r'[a-zA-Z]{2,}', text), lower-cased: run is the word being read
RECURSIVE EnglishWords(_, _, _)
EnglishWords(s, i, run) ==
    LET done == IF Len(run) >= 2 THEN <<Lower(run)>> ELSE <<>>
    IN  IF i > Len(s) THEN done
        ELSE IF s[i] \in Letters THEN EnglishWords(s, i + 1, Append(run, s[i]))
        ELSE done \o EnglishWords(s, i + 1, <<>>)

\* AnalyticsService._extract_words
ExtractWords(text) ==
    IF text = <<>> THEN <<>>
    ELSE LET clean == CleanText(text)
             chinese_text == SelectChars(clean, CJKChars)
         IN  NGrams(chinese_text, 4, 1) \o NGrams(chinese_text, 3, 1)
                \o NGrams(chinese_text, 2, 1) \o EnglishWords(clean, 1, <<>>)

---------------------------------------------------------------------------
(* Rounding: round(x, ndigits) of an exact ratio num / den, den > 0, to the  *)
(* nearest integer, a tie to the even one                                   *)

RoundHalfEven(num, den) ==
    LET q == num \div den
        r == num % den
    IN  IF 2 * r < den THEN q
        ELSE IF 2 * r > den THEN q + 1
        ELSE IF q % 2 = 0 THEN q ELSE q + 1

\* quotient and remainder of num * 10^digits by den, one decimal digit at a
\* time
RECURSIVE ScaledDiv(_, _, _)
ScaledDiv(num, den, digits) ==
    IF digits = 0 THEN [q |-> num \div den, r |-> num % den]
    ELSE LET p == ScaledDiv(num, den, digits - 1)
         IN  [q |-> 10 * p.q + (10 * p.r) \div den, r |-> (10 * p.r) % den]

\* round(num / den, digits), in units of 10^-digits
RoundDigits(num, den, digits) ==
    LET p == ScaledDiv(num, den, digits)
    IN  IF 2 * p.r < den THEN p.q
        ELSE IF 2 * p.r > den THEN p.q + 1
        ELSE IF p.q % 2 = 0 THEN p.q ELSE p.q + 1

---------------------------------------------------------------------------
(* AnalyticsService.analyze_engagement_distribution *)

Ranges ==
    << [lo |-> 0, hi |-> 100, inf |-> FALSE, label |-> "0-100",
        text |-> <<"0", "-", "1", "0", "0">>],
       [lo |-> 100, hi |-> 500, inf |-> FALSE, label |-> "100-500",
        text |-> <<"1", "0", "0", "-", "5", "0", "0">>],
       [lo |-> 500, hi |-> 1000, inf |-> FALSE, label |-> "500-1k",
        text |-> <<"5", "0", "0", "-", "1", "k">>],
       [lo |-> 1000, hi |-> 5000, inf |-> FALSE, label |-> "1k-5k",
        text |-> <<"1", "k", "-", "5", "k">>],
       [lo |-> 5000, hi |-> 10000, inf |-> FALSE, label |-> "5k-1w",
        text |-> <<"5", "k", "-", "1", "w">>],
       [lo |-> 10000, hi |-> 50000, inf |-> FALSE, label |-> "1w-5w",
        text |-> <<"1", "w", "-", "5", "w">>],
       [lo |-> 50000, hi |-> 0, inf |-> TRUE, label |-> "5w+",
        text |-> <<"5", "w", "+">>] >>

\* min_val <= engagement < max_val
InRange(e, r) == r.lo <= e /\ (r.inf \/ e < r.hi)

\* the index of the first range that holds e, 0 when the loop ends
\* without a break
BucketOf(e) ==
    IF \E k \in 1..Len(Ranges) : InRange(e, Ranges[k])
    THEN CHOOSE k \in 1..Len(Ranges) :
            InRange(e, Ranges[k]) /\ \A j \in 1..(k - 1) : ~InRange(e, Ranges[j])
    ELSE 0

\* the first exception of evaluating outcomes[1], outcomes[2], ... in order,
\* or the sequence of the values returned
RECURSIVE FirstRaise(_, _)
FirstRaise(outcomes, i) ==
    IF i > Len(outcomes) THEN Returns([k \in 1..Len(outcomes) |-> outcomes[k].val])
    ELSE IF outcomes[i].kind = "raise" THEN outcomes[i]
    ELSE FirstRaise(outcomes, i + 1)

RECURSIVE SumSeq(_)
SumSeq(s) == IF s = <<>> THEN 0 ELSE Head(s) + SumSeq(Tail(s))

\* the like counts, or the like and comment counts, of posts: the values,
\* or the exception of the first count that does not parse
LikesOfPosts(ps) ==
    FirstRaise([i \in 1..Len(ps) |-> ParsedCount(ps[i].likes)], 1)

CountsOfPosts(ps) ==
    FirstRaise([i \in 1..(2 * Len(ps)) |->
        IF i % 2 = 1 THEN ParsedCount(ps[(i + 1) \div 2].likes)
        ELSE ParsedCount(ps[i \div 2].comments)], 1)

\* likes + comments of each post, in post order
PostEngagements(ps) ==
    With(CountsOfPosts(ps), LAMBDA all :
        IF all.kind = "raise" THEN all
        ELSE Returns([i \in 1..Len(ps) |-> all.val[2 * i - 1] + all.val[2 * i]]))

\* a percentage rounded up instead of to the nearest tenth
PercentageRoundedUp(count, total) == (count * 1000 + total - 1) \div total

\* round(count / total * 100, 1), in tenths of a percent
Percentage(count, total) == RoundHalfEven(count * 1000, total)

\* the indices k of from..Len(Ranges) with count[k] > 0, in order
RECURSIVE UsedRanges(_, _)
UsedRanges(count, from) ==
    IF from > Len(Ranges) THEN <<>>
    ELSE (IF count[from] > 0 THEN <<from>> ELSE <<>>) \o UsedRanges(count, from + 1)

AnalyzeEngagementDistribution(ps) ==
    IF ps = <<>> THEN Returns(<<>>)
    ELSE With(PostEngagements(ps), LAMBDA eng :
        IF eng.kind = "raise" THEN eng
        ELSE
    With([k \in 1..Len(Ranges) |-> {i \in 1..Len(ps) : BucketOf(eng.val[i]) = k}],
         LAMBDA members :
    With([k \in 1..Len(Ranges) |-> Cardinality(members[k])], LAMBDA count :
    With(UsedRanges(count, 1), LAMBDA used :
        Returns([n \in 1..Len(used) |->
            [range_label |-> Ranges[used[n]].label,
             count |-> count[used[n]],
             percentage |-> Percentage(count[used[n]], Len(ps)),
             total_engagement |->
                SumSeq([i \in 1..Len(ps) |->
                    IF i \in members[used[n]] THEN eng.val[i] ELSE 0])]])))))

---------------------------------------------------------------------------
(* AnalyticsService.analyze_hot_words *)

TopNHotWords == 20

\* list.sort(key=..., reverse=True) on records with a field key: descending,
\* equal keys keep their order
InsertByKey(sorted, x) ==
    LET smaller == {i \in 1..Len(sorted) : sorted[i].key < x.key}
        at == IF smaller = {} THEN Len(sorted) + 1
              ELSE CHOOSE i \in smaller : \A j \in smaller : i <= j
    IN  SubSeq(sorted, 1, at - 1) \o <<x>> \o SubSeq(sorted, at, Len(sorted))

RECURSIVE SortDescByKey(_)
SortDescByKey(s) ==
    IF s = <<>> THEN <<>>
    ELSE InsertByKey(SortDescByKey(SubSeq(s, 1, Len(s) - 1)), s[Len(s)])

WithoutKey(s) ==
    [i \in 1..Len(s) |-> [f \in DOMAIN s[i] \ {"key"} |-> s[i][f]]]

\* s[:n]
Take(s, n) == SubSeq(s, 1, IF Len(s) < n THEN Len(s) ELSE n)

\* one pass of the inner loop: word is the next word of a post with the
\* like count engagement; first says it is not yet in seen_in_post
AddWord(stats, word, engagement, first) ==
    LET known == \E i \in 1..Len(stats) : stats[i].word = word
        base == IF first /\ ~known
                THEN Append(stats, [word |-> word, count |-> 0, engagement |-> 0, posts |-> 0])
                ELSE stats
    IN  [i \in 1..Len(base) |->
            IF base[i].word = word
            THEN [word |-> word,
                  count |-> base[i].count + 1,
                  engagement |-> base[i].engagement + engagement,
                  posts |-> base[i].posts + (IF first THEN 1 ELSE 0)]
            ELSE base[i]]

RECURSIVE AddWords(_, _, _, _)
AddWords(stats, words, j, engagement) ==
    IF j > Len(words) THEN stats
    ELSE AddWords(AddWord(stats, words[j], engagement,
                          \A i \in 1..(j - 1) : words[i] # words[j]),
                  words, j + 1, engagement)

\* post.get('title', '') + ' ' + post.get('content', '')
PostText(post) == post.title \o <<" ">> \o post.content

\* word_stats after the first n posts, in insertion order
RECURSIVE WordStats(_, _, _)
WordStats(ps, likes, n) ==
    IF n = 0 THEN <<>>
    ELSE AddWords(WordStats(ps, likes, n - 1), ExtractWords(PostText(ps[n])), 1, likes[n])

\* max(iterable, default=d)
MaxOr(S, d) == IF S = {} THEN d ELSE CHOOSE x \in S : \A y \in S : y <= x

\* round(count / max_count * 0.4 + engagement / max_engagement * 0.6, 3),
\* in thousandths
Weight(stat, max_count, max_engagement) ==
    LET num == 2 * stat.count * max_engagement + 3 * stat.engagement * max_count
        den == 5 * max_count * max_engagement
    IN  IF den > 0 THEN RoundDigits(num, den, 3) ELSE RoundDigits(-num, -den, 3)

\* the filter on the number of occurrences instead of the number of posts
ScoredByCount(stat) == stat.count >= 2

\* the words that are scored: support in at least 2 posts
Scored(stat) == stat.posts >= 2

RECURSIVE SelectScored(_)
SelectScored(stats) ==
    IF stats = <<>> THEN <<>>
    ELSE (IF Scored(Head(stats)) THEN <<Head(stats)>> ELSE <<>>)
            \o SelectScored(Tail(stats))

\* the maxima that normalise the weights
MaxCount(stats) == MaxOr({stats[i].count : i \in 1..Len(stats)}, 1)
MaxEngagement(stats) == MaxOr({stats[i].engagement : i \in 1..Len(stats)}, 1)

AnalyzeHotWords(ps, top_n) ==
    With(LikesOfPosts(ps), LAMBDA likes :
        IF likes.kind = "raise" THEN likes
        ELSE
    With(WordStats(ps, likes.val, Len(ps)), LAMBDA word_stats :
    With(SelectScored(word_stats), LAMBDA scored :
        IF scored # <<>> /\ MaxEngagement(word_stats) = 0
        THEN Raises("ZeroDivisionError")
        ELSE
    With([i \in 1..Len(scored) |->
            With(Weight(scored[i], MaxCount(word_stats), MaxEngagement(word_stats)),
                 LAMBDA weight :
                    [key |-> weight,
                     word |-> scored[i].word,
                     count |-> scored[i].count,
                     weight |-> weight,
                     related_posts |-> scored[i].posts])],
         LAMBDA hot : Returns(Take(WithoutKey(SortDescByKey(hot)), top_n))))))

---------------------------------------------------------------------------
(* AnalyticsService.analyze_tags and analyze_authors *)

TopNTags == 10

\* tag_stats after one more tag of a post with the like count engagement
CountTag(stats, tag, engagement) ==
    IF tag = <<>> \/ Len(tag) <= 1 THEN stats
    ELSE IF \E i \in 1..Len(stats) : stats[i].tag = tag
    THEN [i \in 1..Len(stats) |->
            IF stats[i].tag = tag
            THEN [stats[i] EXCEPT !.count = @ + 1, !.engagement = @ + engagement]
            ELSE stats[i]]
    ELSE Append(stats, [tag |-> tag, count |-> 1, engagement |-> engagement])

RECURSIVE CountTags(_, _, _, _)
CountTags(stats, tags, k, engagement) ==
    IF k > Len(tags) THEN stats
    ELSE CountTags(CountTag(stats, tags[k], engagement), tags, k + 1, engagement)

\* tag_stats after the first n posts
RECURSIVE TagStats(_, _, _)
TagStats(ps, likes, n) ==
    IF n = 0 THEN <<>>
    ELSE CountTags(TagStats(ps, likes, n - 1), ps[n].tags, 1, likes[n])

AnalyzeTags(ps, top_n) ==
    With(LikesOfPosts(ps), LAMBDA likes :
        IF likes.kind = "raise" THEN likes
        ELSE With(TagStats(ps, likes.val, Len(ps)), LAMBDA stats :
            Returns(Take(WithoutKey(SortDescByKey([i \in 1..Len(stats) |->
                [tag |-> stats[i].tag, count |-> stats[i].count,
                 engagement |-> stats[i].engagement, key |-> stats[i].engagement]])),
                         top_n))))

TopNAuthors == 10
TopPostLen == 40

\* the 'unknown' author
Unknown == <<"WEI", "ZHI">>

\* the posts analyze_authors does not skip
Authored(ps) == SelectSeq(ps, LAMBDA p : p.author # <<>> /\ p.author # Unknown)

\* author_data after the first n of the authored posts, in order of first
\* insertion; counts holds their like and comment counts in turn
RECURSIVE AuthorData(_, _, _)
AuthorData(ps, counts, n) ==
    IF n = 0 THEN <<>>
    ELSE LET data == AuthorData(ps, counts, n - 1)
             post == ps[n]
             likes == counts[2 * n - 1]
             comments == counts[2 * n]
             fresh == [author |-> post.author, posts_count |-> 0, total_likes |-> 0,
                       total_comments |-> 0, top_post |-> <<>>, top_likes |-> 0]
             known == \E i \in 1..Len(data) : data[i].author = post.author
             all == IF known THEN data ELSE Append(data, fresh)
         IN  [i \in 1..Len(all) |->
                IF all[i].author # post.author THEN all[i]
                ELSE [author |-> post.author,
                      posts_count |-> all[i].posts_count + 1,
                      total_likes |-> all[i].total_likes + likes,
                      total_comments |-> all[i].total_comments + comments,
                      top_post |-> IF likes > all[i].top_likes
                                   THEN Take(post.title, TopPostLen) ELSE all[i].top_post,
                      top_likes |-> IF likes > all[i].top_likes
                                    THEN likes ELSE all[i].top_likes]]

\* avg_engagement is in tenths
AnalyzeAuthors(ps, top_n) ==
    With(Authored(ps), LAMBDA authored :
    With(CountsOfPosts(authored), LAMBDA counts :
        IF counts.kind = "raise" THEN counts
        ELSE With(AuthorData(authored, counts.val, Len(authored)), LAMBDA data :
            Returns(Take(WithoutKey(SortDescByKey([i \in 1..Len(data) |->
                [author |-> data[i].author,
                 posts_count |-> data[i].posts_count,
                 total_likes |-> data[i].total_likes,
                 total_comments |-> data[i].total_comments,
                 avg_engagement |->
                    FloatRound(FloatQuot(data[i].total_likes + data[i].total_comments,
                                         data[i].posts_count), 1),
                 top_post |-> data[i].top_post,
                 key |-> data[i].total_likes]])), top_n)))))

---------------------------------------------------------------------------
(* AnalyticsService.calculate_quality_scores *)

\* the characters of the model in the range U+1F300..U+1F9FF
Emojis == {"(fire)"}

QualityTitleLen == 50

\* len(re.findall(emoji, text))
EmojiCount(text) == Cardinality({i \in 1..Len(text) : text[i] \in Emojis})

\* max(...) or 1
MaxOrOne(s) == IF SeqMax(s) = 0 THEN 1 ELSE SeqMax(s)

\* the scores of one post as doubles, and its viral potential
PostQuality(post, likes, comments, max_likes, max_comments) ==
    With(FloatAdd(FloatScale(FloatQuot(likes, max_likes), 25),
                  FloatScale(FloatQuot(comments, max_comments), 15)),
         LAMBDA engagement_score :
    With(FloatAdd(FloatAdd(FloatAdd(
            FloatScale(FloatMin(FloatQuot(Len(post.title), 30), FloatOfInt(1)), 15),
            FloatScale(FloatMin(FloatQuot(Len(post.title) + Len(post.content), 200),
                                FloatOfInt(1)), 10)),
            FloatMin(FloatTimes(EmojiCount(post.title \o post.content), 5, 1),
                     FloatOfInt(5))),
            FloatMin(FloatTimes(Len(post.tags), 15, 1), FloatOfInt(5))),
         LAMBDA content_score :
    With(FloatMin(FloatScale(FloatQuot(likes + comments * 2,
                                       IF likes + 1 > 1 THEN likes + 1 ELSE 1), 10),
                  FloatOfInt(25)),
         LAMBDA author_score :
    With(FloatAdd(FloatAdd(engagement_score, content_score), author_score),
         LAMBDA total_score :
            [post_title |-> Take(post.title, QualityTitleLen),
             total_score |-> FloatRound(total_score, 1),
             engagement_score |-> FloatRound(engagement_score, 1),
             content_score |-> FloatRound(content_score, 1),
             author_score |-> FloatRound(author_score, 1),
             viral_potential |->
                IF ~FloatLess(total_score, FloatOfInt(70)) THEN "high"
                ELSE IF ~FloatLess(total_score, FloatOfInt(45)) THEN "medium"
                ELSE "low"]))))

\* the scores of the posts of the model under each pair of maxima, computed
\* once
QualityPosts == {p \in ModelPosts :
                    ParsedCount(p.likes).kind = "return"
                        /\ ParsedCount(p.comments).kind = "return"}

QualityMaxima(S) == {IF n = 0 THEN 1 ELSE n : n \in S}

QualityKeys ==
    With(QualityPosts, LAMBDA ps :
        {<<p, ml, mc>> :
            p \in ps,
            ml \in QualityMaxima({ParsedCount(q.likes).val : q \in ps}),
            mc \in QualityMaxima({ParsedCount(q.comments).val : q \in ps})})

QualityTable ==
    {<<k, PostQuality(k[1], ParsedCount(k[1].likes).val, ParsedCount(k[1].comments).val,
                      k[2], k[3])>> : k \in QualityKeys}

QualityOf(post, likes, comments, max_likes, max_comments) ==
    IF <<post, max_likes, max_comments>> \in QualityKeys
    THEN Lookup(QualityTable, <<post, max_likes, max_comments>>)
    ELSE PostQuality(post, likes, comments, max_likes, max_comments)

\* the scores are in tenths
CalculateQualityScores(ps) ==
    IF ps = <<>> THEN Returns(<<>>)
    ELSE With(LikesOfPosts(ps), LAMBDA likes :
        IF likes.kind = "raise" THEN likes
        ELSE
    With(FirstRaise([i \in 1..Len(ps) |-> ParsedCount(ps[i].comments)], 1),
         LAMBDA comments :
        IF comments.kind = "raise" THEN comments
        ELSE Returns(WithoutKey(SortDescByKey([i \in 1..Len(ps) |->
            With(QualityOf(ps[i], likes.val[i], comments.val[i],
                           MaxOrOne(likes.val), MaxOrOne(comments.val)),
                 LAMBDA q :
                    [post_title |-> q.post_title,
                     total_score |-> q.total_score,
                     engagement_score |-> q.engagement_score,
                     content_score |-> q.content_score,
                     author_score |-> q.author_score,
                     viral_potential |-> q.viral_potential,
                     key |-> q.total_score])])))))

---------------------------------------------------------------------------
(* AnalyticsService.generate_insights *)

Insight(rule, args) == [rule |-> rule, args |-> args]

\* '1w' in range_label or '5w' in range_label
HighEngagementLabel(label) ==
    \E k \in 1..Len(Ranges) :
        /\ Ranges[k].label = label
        /\ \/ IsSubstring(<<"1", "w">>, Ranges[k].text)
           \/ IsSubstring(<<"5", "w">>, Ranges[k].text)

\* sum(...) of percentages given in tenths, as a double
RECURSIVE SumTenths(_, _)
SumTenths(s, n) ==
    IF n = 0 THEN FloatOfInt(0)
    ELSE FloatAdd(SumTenths(s, n - 1), FloatOfTenths(s[n]))

\* the heat sentence written whatever the average is
GenerateInsightsAlwaysHot(ps, hot, dist, authors) ==
    IF ps = <<>> THEN Returns(<<Insight("not_enough_data", <<>>)>>)
    ELSE With(PostEngagements(ps), LAMBDA eng :
        IF eng.kind = "raise" THEN eng
        ELSE Returns(<<Insight("overall", <<Len(ps), SumSeq(eng.val)>>),
                       Insight("hot", <<0>>)>>))

\* an insight stands for its sentence: the rule that wrote it and the
\* values formatted into it
GenerateInsights(ps, hot, dist, authors) ==
    IF ps = <<>> THEN Returns(<<Insight("not_enough_data", <<>>)>>)
    ELSE With(PostEngagements(ps), LAMBDA eng :
        IF eng.kind = "raise" THEN eng
        ELSE Returns(
            <<Insight("overall", <<Len(ps), SumSeq(eng.val)>>)>>
            \o With(FloatQuot(SumSeq(eng.val), Len(ps)), LAMBDA avg_engagement :
                IF FloatLess(FloatOfInt(10000), avg_engagement)
                THEN <<Insight("very_hot", <<FloatRound(avg_engagement, 0)>>)>>
                ELSE IF FloatLess(FloatOfInt(1000), avg_engagement)
                THEN <<Insight("hot", <<FloatRound(avg_engagement, 0)>>)>>
                ELSE <<>>)
            \o (IF Len(hot) >= 3
                THEN <<Insight("hot_words",
                               [i \in 1..Len(Take(hot, 5)) |-> hot[i].word])>>
                ELSE <<>>)
            \o With(SelectSeq(dist, LAMBDA d : HighEngagementLabel(d.range_label)),
                    LAMBDA high_engagement :
                With(SumTenths([i \in 1..Len(high_engagement) |->
                                    high_engagement[i].percentage],
                               Len(high_engagement)),
                     LAMBDA high_pct :
                        IF high_engagement # <<>> /\ FloatLess(FloatOfInt(20), high_pct)
                        THEN <<Insight("viral", <<FloatRound(high_pct, 1)>>)>>
                        ELSE <<>>))
            \o (IF Len(authors) >= 1
                THEN <<Insight("top_author",
                               <<authors[1].author, authors[1].total_likes>>)>>
                ELSE <<>>)
            \o With(SumSeq([i \in 1..Len(ps) |-> ParsedCount(ps[i].likes).val]),
                    LAMBDA total_likes :
                IF total_likes <= 0 THEN <<>>
                ELSE With(FloatQuot(SumSeq([i \in 1..Len(ps) |->
                                        ParsedCount(ps[i].comments).val]), total_likes),
                          LAMBDA comment_rate :
                            IF FloatLess(FloatOfTenths(1), comment_rate)
                            THEN <<Insight("comment_rate",
                                    <<FloatRound(FloatScale(comment_rate, 100), 1)>>)>>
                            ELSE <<>>))))

---------------------------------------------------------------------------
(* AnalyticsService.generate_report *)

\* an empty report without any insight
EmptyReportSilent ==
    [total_posts |-> 0, total_likes |-> 0, total_comments |-> 0,
     total_engagement |-> 0, avg_likes |-> 0, avg_comments |-> 0,
     avg_engagement |-> 0, max_likes |-> 0, max_comments |-> 0,
     engagement_distribution |-> <<>>, hot_words |-> <<>>, top_tags |-> <<>>,
     top_authors |-> <<>>, quality_scores |-> <<>>,
     insights |-> <<>>]

\* the averages are in tenths
EmptyReport ==
    [total_posts |-> 0, total_likes |-> 0, total_comments |-> 0,
     total_engagement |-> 0, avg_likes |-> 0, avg_comments |-> 0,
     avg_engagement |-> 0, max_likes |-> 0, max_comments |-> 0,
     engagement_distribution |-> <<>>, hot_words |-> <<>>, top_tags |-> <<>>,
     top_authors |-> <<>>, quality_scores |-> <<>>,
     insights |-> <<Insight("no_data", <<>>)>>]

\* round(total / n, 1), in tenths
Average(total, n) == FloatRound(FloatQuot(total, n), 1)

GenerateReport(ps) ==
    IF ps = <<>> THEN Returns(EmptyReport)
    ELSE
    With(LikesOfPosts(ps), LAMBDA likes_list :
        IF likes_list.kind = "raise" THEN likes_list ELSE
    With(FirstRaise([i \in 1..Len(ps) |-> ParsedCount(ps[i].comments)], 1),
         LAMBDA comments_list :
        IF comments_list.kind = "raise" THEN comments_list ELSE
    With(AnalyzeEngagementDistribution(ps), LAMBDA dist :
        IF dist.kind = "raise" THEN dist ELSE
    With(AnalyzeHotWords(ps, TopNHotWords), LAMBDA hot :
        IF hot.kind = "raise" THEN hot ELSE
    With(AnalyzeTags(ps, TopNTags), LAMBDA tags :
        IF tags.kind = "raise" THEN tags ELSE
    With(AnalyzeAuthors(ps, TopNAuthors), LAMBDA authors :
        IF authors.kind = "raise" THEN authors ELSE
    With(CalculateQualityScores(ps), LAMBDA quality_scores :
        IF quality_scores.kind = "raise" THEN quality_scores ELSE
    With(GenerateInsights(ps, hot.val, dist.val, authors.val), LAMBDA insights :
        IF insights.kind = "raise" THEN insights ELSE
    With(SumSeq(likes_list.val), LAMBDA total_likes :
    With(SumSeq(comments_list.val), LAMBDA total_comments :
        Returns(
            [total_posts |-> Len(ps),
             total_likes |-> total_likes,
             total_comments |-> total_comments,
             total_engagement |-> total_likes + total_comments,
             avg_likes |-> Average(total_likes, Len(ps)),
             avg_comments |-> Average(total_comments, Len(ps)),
             avg_engagement |-> Average(total_likes + total_comments, Len(ps)),
             max_likes |-> SeqMax(likes_list.val),
             max_comments |-> SeqMax(comments_list.val),
             engagement_distribution |-> dist.val,
             hot_words |-> hot.val,
             top_tags |-> tags.val,
             top_authors |-> authors.val,
             quality_scores |-> quality_scores.val,
             insights |-> insights.val])))))))))))

---------------------------------------------------------------------------
(* The analytics service applied to small post collections *)

RECURSIVE SeqsUpTo(_, _)
SeqsUpTo(S, n) ==
    IF n = 0 THEN {<<>>}
    ELSE LET shorter == SeqsUpTo(S, n - 1)
         IN  shorter \cup {Append(s, x) : s \in {t \in shorter : Len(t) = n - 1}, x \in S}

PostInputs ==
    SeqsUpTo(DistPosts, MaxDistPosts) \cup SeqsUpTo(WordPosts, MaxWordPosts)
        \cup SeqsUpTo(ScorePosts, MaxScorePosts) \cup SeqsUpTo(ViralPosts, MaxViralPosts)

InitAnalytics ==
    /\ posts \in PostInputs
    /\ distribution = NotRun
    /\ hot_words = NotRun
    /\ quality = NotRun
    /\ report = NotRun
    /\ ChatIdle
    /\ RelevanceIdle
    /\ ScraperIdle
    /\ CompareIdle
    /\ ApiIdle
    /\ ScoreIdle
    /\ pc = "input"
    /\ value = None
    /\ parsed = [analytics |-> NotRun, rankings |-> NotRun, regional |-> NotRun]
    /\ reparsed = NotRun
    /\ extracted = <<>>
    /\ request = NotRun
    /\ all_posts = <<>>
    /\ unique_posts = <<>>
    /\ ranking = NotRun
    /\ analysis = NotRun

\* service.analyze_engagement_distribution(posts)
CallAnalyzeEngagementDistribution ==
    /\ pc = "input"
    /\ distribution' = AnalyzeEngagementDistribution(posts)
    /\ pc' = "distribution"
    /\ UNCHANGED <<posts, hot_words, quality, report, normVars, serviceVars,
                   scoreVars, apiVars, compareVars, scraperVars, relevanceVars, chatVars>>

\* service.analyze_hot_words(posts)
CallAnalyzeHotWords ==
    /\ pc = "input"
    /\ hot_words' = AnalyzeHotWords(posts, TopNHotWords)
    /\ pc' = "hot_words"
    /\ UNCHANGED <<posts, distribution, quality, report, normVars, serviceVars,
                   scoreVars, apiVars, compareVars, scraperVars, relevanceVars, chatVars>>

\* service.generate_report(posts, keyword)
CallGenerateReport ==
    /\ pc = "input"
    /\ report' = GenerateReport(posts)
    /\ pc' = "report"
    /\ UNCHANGED <<posts, distribution, hot_words, quality, normVars, serviceVars,
                   scoreVars, apiVars, compareVars, scraperVars, relevanceVars, chatVars>>

\* service.calculate_quality_scores(posts)
CallCalculateQualityScores ==
    /\ pc = "input"
    /\ quality' = CalculateQualityScores(posts)
    /\ pc' = "quality"
    /\ UNCHANGED <<posts, distribution, hot_words, report, normVars, serviceVars,
                   scoreVars, apiVars, compareVars, scraperVars, relevanceVars, chatVars>>

NextAnalytics ==
    \/ CallAnalyzeEngagementDistribution
    \/ CallAnalyzeHotWords
    \/ CallCalculateQualityScores
    \/ CallGenerateReport

SpecAnalytics == InitAnalytics /\ [][NextAnalytics]_vars

---------------------------------------------------------------------------
(* AnalyticsService.compare_keywords *)

\* the statistics of one keyword; avg_engagement in tenths
KeywordStat(keyword, ps) ==
    With(LikesOfPosts(ps), LAMBDA likes :
        IF likes.kind = "raise" THEN likes ELSE
    With(FirstRaise([i \in 1..Len(ps) |-> ParsedCount(ps[i].comments)], 1),
         LAMBDA comments :
        IF comments.kind = "raise" THEN comments ELSE
    With(SumSeq(likes.val) + SumSeq(comments.val), LAMBDA total_engagement :
        Returns([keyword |-> keyword,
                 posts_count |-> Len(ps),
                 total_likes |-> SumSeq(likes.val),
                 total_comments |-> SumSeq(comments.val),
                 total_engagement |-> total_engagement,
                 avg_engagement |->
                    IF ps = <<>> THEN 0 ELSE Average(total_engagement, Len(ps))]))))

\* the ratio of the leader to the runner-up without the floor of 1
LeadRatioUnfloored(first, second) ==
    IF second = 0 THEN 0 ELSE FloatRound(FloatQuot(first, second), 1)

\* ratio = first / max(second, 1), formatted with {ratio:.1f}: in tenths
LeadRatio(first, second) ==
    FloatRound(FloatQuot(first, IF second > 1 THEN second ELSE 1), 1)

\* the insights of a comparison chart
LeadInsights(chart) ==
    IF Len(chart) >= 2
    THEN <<Insight("lead", [first |-> chart[1].keyword,
                            second |-> chart[2].keyword,
                            ratio |-> LeadRatio(chart[1].total_engagement,
                                                chart[2].total_engagement)])>>
    ELSE <<>>

\* keyword_stats.sort(key=lambda x: x['total_engagement'], reverse=True)
SortStats(keyword_stats) ==
    WithoutKey(SortDescByKey([i \in 1..Len(keyword_stats) |->
        [f \in DOMAIN keyword_stats[i] \cup {"key"} |->
            IF f = "key" THEN keyword_stats[i].total_engagement
            ELSE keyword_stats[i][f]]]))

\* compare_keywords(keyword_posts), keyword_posts the items of the dict in
\* insertion order
CompareKeywords(kp) ==
    With(FirstRaise([i \in 1..Len(kp) |-> KeywordStat(kp[i].keyword, kp[i].posts)], 1),
         LAMBDA keyword_stats :
        IF keyword_stats.kind = "raise" THEN keyword_stats ELSE
    With(SortStats(keyword_stats.val), LAMBDA chart :
        Returns([keywords |-> [i \in 1..Len(kp) |-> kp[i].keyword],
                 comparison_chart |-> chart,
                 winner |-> IF chart = <<>> THEN None ELSE Str(chart[1].keyword),
                 insights |-> LeadInsights(chart)])))

---------------------------------------------------------------------------
(* Cohorts of posts compared by keyword, and the report on all of them *)

MaxComparePosts == 3

\* posts with engagement 5, 0, -1000 and 10
CohortPosts ==
    { Post(<<"HU", "FU">>, <<>>, <<"a">>, l, Str(<<"0">>), << <<"HU", "FU">> >>) :
        l \in WordLikes }
      \cup { Post(<<>>, <<>>, <<"b">>, Str(<<"1", "0">>), Str(<<"0">>), <<>>) }

Keywords == << <<"HU", "FU">>, <<"MIAN", "MO">>, <<"HAO", "WU">> >>

\* the posts cut into cohorts after cuts[1], cuts[2], ... posts, one cohort
\* for each of the first keywords
Cohorts(ps, cuts) ==
    [i \in 1..(Len(cuts) - 1) |->
        [keyword |-> Keywords[i], posts |-> SubSeq(ps, cuts[i] + 1, cuts[i + 1])]]

\* the ways to make at most three cohorts of the posts
CohortInputs(ps) ==
    (IF ps = <<>> THEN {<<>>} ELSE {})
        \cup {Cohorts(ps, <<0, Len(ps)>>)}
        \cup {Cohorts(ps, <<0, a, Len(ps)>>) : a \in 0..Len(ps)}
        \cup {Cohorts(ps, <<0, c[1], c[2], Len(ps)>>) :
                c \in {d \in (0..Len(ps)) \X (0..Len(ps)) : d[1] <= d[2]}}

InitCompare ==
    /\ posts \in SeqsUpTo(CohortPosts, MaxComparePosts)
    /\ keyword_posts \in CohortInputs(posts)
    /\ comparison = NotRun
    /\ distribution = NotRun
    /\ hot_words = NotRun
    /\ quality = NotRun
    /\ report = NotRun
    /\ ChatIdle
    /\ RelevanceIdle
    /\ ScraperIdle
    /\ ApiIdle
    /\ ScoreIdle
    /\ pc = "input"
    /\ value = None
    /\ parsed = [analytics |-> NotRun, rankings |-> NotRun, regional |-> NotRun]
    /\ reparsed = NotRun
    /\ extracted = <<>>
    /\ request = NotRun
    /\ all_posts = <<>>
    /\ unique_posts = <<>>
    /\ ranking = NotRun
    /\ analysis = NotRun

\* service.compare_keywords(keyword_posts)
CallCompareKeywords ==
    /\ pc = "input"
    /\ comparison' = CompareKeywords(keyword_posts)
    /\ pc' = "compare"
    /\ UNCHANGED <<keyword_posts, analyticsVars, normVars, serviceVars, scoreVars,
                   apiVars, scraperVars, relevanceVars, chatVars>>

NextCompare ==
    \/ CallAnalyzeEngagementDistribution
    \/ CallAnalyzeHotWords
    \/ CallCalculateQualityScores
    \/ CallGenerateReport
    \/ CallCompareKeywords

SpecCompare == InitCompare /\ [][NextCompare]_vars

---------------------------------------------------------------------------
(* The posts of the ranking and city requests of the model *)

\* 29 characters that every long title starts with
TitleStem == [i \in 1..29 |-> "x"]

ServicePosts ==
    { Post(TitleStem \o <<"a", "1">>, <<>>, <<"a">>, Str(<<"6">>), Str(<<"0">>), <<>>),
      Post(TitleStem \o <<"a", "2">>, <<"CHUN", "XI3", "LU">>, <<"b">>,
           Str(<<"1">>), Str(<<"4">>), <<>>),
      Post(TitleStem \o <<"b", "1">>, <<"HUO", "GUO">>, <<"a">>,
           Str(<<"1">>), Str(<<"4">>), <<>>),
      Post(<<"HUO", "GUO">>, <<"CHUN", "XI3", "LU">>, <<>>, Str(<<"0">>), Str(<<"4">>), <<>>),
      Post(<<>>, <<"XIAO", "MIAN">>, <<"WEI", "ZHI">>, Str(<<"w">>), Str(<<"1">>), <<>>) }

\* the like counts and the comment counts of the posts scored one by one
ScoreLikes ==
    {Str(s) : s \in {<<"0">>, <<"1">>, <<"6">>, <<"-", "1", "k">>, <<"2", ".", "3", "w">>}}
ScoreComments ==
    {Str(s) : s \in {<<"0">>, <<"1">>, <<"2">>, <<"4">>, <<"1", "k">>, <<"2", "k">>,
                     <<"-", "1", "k">>, <<"w">>}}

\* the like and comment counts that occur in the posts of a request
ServiceCounts ==
    {p.likes : p \in ServicePosts} \cup {p.comments : p \in ServicePosts}
        \cup ScoreLikes \cup ScoreComments
        \cup {Str(s) : s \in {<<"2", ".", "3", "w">>, <<"1", "8", "5", "6">>,
                               <<"1", ".", "8", "w">>, <<"9", "2", "3">>,
                               <<"5", ".", "6", "w">>, <<"2", "3", "4", "1">>,
                               <<"3", ".", "2", "w">>, <<"1", "5", "6", "7">>,
                               <<"4", ".", "1", "w">>, <<"1", "8", "9", "2">>}}

\* _parse_likes and _parse_engagement on these counts, computed once
ParseLikesTable == {<<v, ParseLikes(v)>> : v \in ServiceCounts}
ParsedLikes(v) == Lookup(ParseLikesTable, v)
ParseEngagementTable == {<<v, ParseEngagement(v)>> : v \in ServiceCounts}
ParsedEngagement(v) == Lookup(ParseEngagementTable, v)

---------------------------------------------------------------------------
(* The scraper, as the ranking and the regional service see it.  A Chinese
   character is one element of a text, written as its pinyin; different
   characters with the same pinyin carry a digit. *)

\* _get_demo_posts(keyword): five posts built around the keyword
DemoPosts(keyword) ==
    << Post(<<"[[", "CHAO", "XIANG", "XI", "]]">> \o keyword
                \o <<"BAO", "MU", "JI", "GONG", "LUE", "FEN", "XIANG3", " ", "(target)">>,
            <<"FEN", "XIANG3", "YI", "XIA", "WO", "GUAN", "YU">> \o keyword
                \o <<"DE", "XIN", "DE2", "TI", "HUI", "!", "JING", "GUO4", "DUO", "CI",
                     "CHANG", "SHI", "ZONG", "JIE", "CHU", "LAI", "DE", "JING", "YAN", ",",
                     "XI2", "WANG", "DUI", "DA", "JIA", "YOU", "BANG", "ZHU", "~">>,
            <<"SHENG", "HUO2", "XIAO", "DA3", "REN">>,
            Str(<<"2", ".", "3", "w">>), Str(<<"1", "8", "5", "6">>),
            <<keyword, <<"GAN", "HUO3", "FEN", "XIANG3">>>>),
       Post(keyword \o <<"ZHE", "YANG", "ZUO", "CAI", "DUI", "!", "QIN", "CE", "YOU",
                         "XIAO2", " ", "(sparkles)">>,
            <<"GUAN", "YU">> \o keyword
                \o <<",", "WO", "ZOU", "GUO4", "HEN", "DUO", "WAN2", "LU", ",", "JIN",
                     "TIAN", "LAI", "FEN", "XIANG3", "ZHENG", "QUE", "DE", "FANG", "FA", "!">>,
            <<"SHI2", "SHANG", "BO", "ZHU2", "XIAO", "MEI">>,
            Str(<<"1", ".", "8", "w">>), Str(<<"9", "2", "3">>),
            <<keyword, <<"QIN", "CE", "YOU", "XIAO2">>>>),
       Post(<<"XIN2", "SHOU", "BI", "KAN", "!">> \o keyword
                \o <<"RU", "MEN", "QUAN", "GONG", "LUE", " ", "(books)">>,
            <<"XIN2", "SHOU", "RU2", "HE", "KUAI", "SU", "RU", "MEN">> \o keyword
                \o <<"?", "ZHE", "PIAN", "WEN", "ZHANG", "BANG", "NI", "JIE2", "DA2",
                     "SUO", "YOU", "YI2", "WEN2", "!">>,
            <<"ZHI", "SHI3", "FEN", "XIANG3", "GUAN2">>,
            Str(<<"5", ".", "6", "w">>), Str(<<"2", "3", "4", "1">>),
            <<keyword, <<"XIN2", "SHOU", "RU", "MEN">>>>),
       Post(<<"ZHEN", "SHI4", "CE", "PING", " ", "|", " ">> \o keyword
                \o <<"SHEN", "DU2", "TI", "YAN", "BAO2", "GAO", " ", "(100)">>,
            <<"SHI5", "YONG">> \o keyword
                \o <<"YI", "GE", "YUE", "HOU", "DE", "ZHEN", "SHI4", "GAN2", "SHOU2",
                     "FEN", "XIANG3", "~">>,
            <<"CE", "PING", "DA3", "REN", "M", "a", "x">>,
            Str(<<"3", ".", "2", "w">>), Str(<<"1", "5", "6", "7">>),
            <<keyword, <<"ZHEN", "SHI4", "CE", "PING">>>>),
       Post(<<"2", "0", "2", "6", "ZUI", "XIN2", "!">> \o keyword
                \o <<"QU", "SHI6", "JIE2", "DU3", " ", "(fire)">>,
            <<"JIN", "NIAN">> \o keyword
                \o <<"LING", "YU2", "YOU", "NA", "XIE", "XIN2", "QU", "SHI6", "?", "YI",
                     "WEN", "DAI", "NI", "LIAO", "JIE2", "ZUI", "XIN2", "DONG", "TAI", "!">>,
            <<"HANG", "YE", "GUAN3", "CHA", "ZHE2">>,
            Str(<<"4", ".", "1", "w">>), Str(<<"1", "8", "9", "2">>),
            <<keyword, <<"QU", "SHI6">>>>) >>

\* search_posts(keyword, max_posts): the posts extracted from the page, the
\* demo posts when there are none, cut to max_posts
SearchPosts(found, keyword, max_posts) ==
    Take(IF found = <<>> THEN DemoPosts(keyword) ELSE found, max_posts)

\* the posts of the searches for the first two keywords, in search order
RECURSIVE CollectPosts(_, _, _, _)
CollectPosts(found, keywords, max_posts, k) ==
    IF k > Len(keywords) \/ k > 2 THEN <<>>
    ELSE SearchPosts(found[k], keywords[k], max_posts)
            \o CollectPosts(found, keywords, max_posts, k + 1)

---------------------------------------------------------------------------
(* Deduplication by title, as get_ranking and analyze_city both do it *)

TitlePrefixLen == 30

\* the whole title as the key
TitleKeyWhole(post) == post.title

\* post.get('title', '')[:30]
TitleKey(post) == Take(post.title, TitlePrefixLen)

\* seen_titles and unique_posts after the first n posts of the loop
RECURSIVE DedupLoop(_, _)
DedupLoop(ps, n) ==
    IF n = 0 THEN [seen |-> {}, unique |-> <<>>]
    ELSE LET before == DedupLoop(ps, n - 1)
             title == TitleKey(ps[n])
         IN  IF title \notin before.seen
             THEN [seen |-> before.seen \cup {title},
                   unique |-> Append(before.unique, ps[n])]
             ELSE before

Deduplicate(ps) == DedupLoop(ps, Len(ps)).unique

---------------------------------------------------------------------------
(* rankings.py: RankingService *)

\* class RankingType: the values of its members
RankingType ==
    {"hot", "rising", "weekly", "beauty", "fashion", "food",
     "travel", "fitness", "digital", "home", "pet", "mother"}

\* the categories that the requests to the service ask for
RankingTypes == {"hot", "rising", "weekly", "pet"}

RANKING_CONFIG ==
    [t \in RankingType |->
        CASE t = "hot" ->
                [title |-> "re men nei rong bang",
                 keywords |-> << <<"RE", "MEN">>, <<"BAO3", "KUAN">>,
                                 <<"BI", "KAN">> >>,
                 sort_by |-> "engagement"]
          [] t = "rising" ->
                [title |-> "xin jin bao kuan bang",
                 keywords |-> << <<"XIN2", "FA2", "XIAN">>, <<"XIAO", "ZHONG">>,
                                 <<"BAO4", "ZANG">> >>,
                 sort_by |-> "rising"]
          [] t = "weekly" ->
                [title |-> "ben zhou re bang",
                 keywords |-> << <<"BEN", "ZHOU">>, <<"ZHOU", "BANG3">> >>,
                 sort_by |-> "weekly"]
          [] t = "beauty" ->
                [title |-> "mei zhuang hu fu bang",
                 keywords |-> << <<"MEI", "ZHUANG2", "TUI", "JIAN">>, <<"HU", "FU", "PIN">>,
                                 <<"HUA", "ZHUANG2", "JIAO", "CHENG3">>, <<"s", "k", "i", "n", "c", "a", "r", "e">> >>,
                 sort_by |-> "engagement"]
          [] t = "fashion" ->
                [title |-> "chuan da shi shang bang",
                 keywords |-> << <<"CHUAN2", "DA4", "FEN", "XIANG3">>, <<"o", "o", "t", "d">>,
                                 <<"SHI2", "SHANG", "CHUAN2", "DA4">>, <<"RI", "CHANG3", "CHUAN2", "DA4">> >>,
                 sort_by |-> "engagement"]
          [] t = "food" ->
                [title |-> "mei shi tan dian bang",
                 keywords |-> << <<"MEI", "SHI7", "TUI", "JIAN">>, <<"TAN", "DIAN">>,
                                 <<"MEI", "SHI7", "GONG", "LUE">>, <<"HAO", "CHI">> >>,
                 sort_by |-> "engagement"]
          [] t = "travel" ->
                [title |-> "lv xing mu di di bang",
                 keywords |-> << <<"LV", "XING", "GONG", "LUE">>, <<"LV", "YOU3", "TUI", "JIAN">>,
                                 <<"CHU", "XING">>, <<"DA5", "KA">> >>,
                 sort_by |-> "engagement"]
          [] t = "fitness" ->
                [title |-> "jian shen yun dong bang",
                 keywords |-> << <<"JIAN2", "SHEN2", "DA5", "KA">>, <<"JIAN3", "ZHI2">>,
                                 <<"YUN", "DONG3">>, <<"YU3", "JIA2">> >>,
                 sort_by |-> "engagement"]
          [] t = "digital" ->
                [title |-> "shu ma ke ji bang",
                 keywords |-> << <<"SHU", "MA", "CE", "PING">>, <<"SHOU", "JI3", "TUI", "JIAN">>,
                                 <<"DIAN2", "ZI", "CHAN", "PIN">>, <<"KE", "JI4">> >>,
                 sort_by |-> "engagement"]
          [] t = "home" ->
                [title |-> "jia ju sheng huo bang",
                 keywords |-> << <<"JIA", "JU", "HAO", "WU">>, <<"SHOU3", "NA2">>,
                                 <<"ZHUANG3", "XIU">>, <<"JU", "JIA">> >>,
                 sort_by |-> "engagement"]
          [] t = "pet" ->
                [title |-> "meng chong bang",
                 keywords |-> << <<"MAO", "MI">>, <<"GOU", "GOU">>,
                                 <<"MENG", "CHONG">>, <<"YANG2", "CHONG">> >>,
                 sort_by |-> "engagement"]
          [] t = "mother" ->
                [title |-> "mu ying qin zi bang",
                 keywords |-> << <<"MU2", "YING", "HAO", "WU">>, <<"YU4", "ER">>,
                                 <<"BAO5", "BAO5">>, <<"QIN2", "ZI">> >>,
                 sort_by |-> "engagement"]]

\* the weighted sum with the comments counted against the post
WeightedAgainst(likes, lm, lf, comments, cm, cf) ==
    FloatAdd(FloatTimes(likes, lm, lf), FloatTimes(0 - comments, cm, cf))

\* likes * <lm with lf decimals> + comments * <cm with cf decimals>
Weighted(likes, lm, lf, comments, cm, cf) ==
    FloatAdd(FloatTimes(likes, lm, lf), FloatTimes(comments, cm, cf))

\* the score without the weights of the strategy
CalculateScoreUnweighted(post, sort_by) ==
    With(ParsedLikes(post.likes), LAMBDA likes :
        IF likes.kind = "raise" THEN likes ELSE
    With(ParsedLikes(post.comments), LAMBDA comments :
        IF comments.kind = "raise" THEN comments
        ELSE Returns(FloatOfInt(likes.val + comments.val))))

\* _calculate_score(post, sort_by): a double, or the exception of
\* _parse_likes
CalculateScore(post, sort_by) ==
    With(ParsedLikes(post.likes), LAMBDA likes :
        IF likes.kind = "raise" THEN likes ELSE
    With(ParsedLikes(post.comments), LAMBDA comments :
        IF comments.kind = "raise" THEN comments
        ELSE IF sort_by = "engagement"
        THEN Returns(Weighted(likes.val, 10, 1, comments.val, 20, 1))
        ELSE IF sort_by = "rising"
        THEN Returns(Weighted(likes.val, 5, 1, comments.val, 30, 1))
        ELSE IF sort_by = "weekly"
        THEN Returns(Weighted(likes.val, 12, 1, comments.val, 15, 1))
        ELSE Returns(FloatOfInt(likes.val + comments.val))))

\* _calculate_score on the counts of the posts of a request, computed once
ScoreTable ==
    {<<k, CalculateScore([likes |-> k[1][1], comments |-> k[1][2]], k[2])>> :
        k \in {<<p.likes, p.comments>> : p \in ServicePosts \cup Range(DemoPosts(<<>>))}
                \X {RANKING_CONFIG[t].sort_by : t \in RankingTypes}}
Score(post, sort_by) == Lookup(ScoreTable, << <<post.likes, post.comments>>, sort_by >>)

\* the doubles that are the score of a post
Scores == {r[2].val : r \in {t \in ScoreTable : t[2].kind = "return"}}

\* the place of each score in the order of the doubles
ScoreOrder ==
    With(Scores, LAMBDA all :
        {<<x, Cardinality({y \in all : FloatLess(y, x)})>> : x \in all})

\* round(score, 2) of each score, in hundredths, and the double it is
RoundedScores == {<<x, FloatRound2(x)>> : x \in Scores}
ItemScores == {<<r[2], FloatOfHundredths(r[2])>> : r \in RoundedScores}

\* scored_posts.sort(key=lambda x: x[1], reverse=True): stable, by the
\* order of the doubles
SortDescByScore(s) ==
    With(SortDescByKey([i \in 1..Len(s) |->
            [post |-> s[i].post, score |-> s[i].score,
             key |-> Lookup(ScoreOrder, s[i].score)]]),
         LAMBDA keyed :
            [i \in 1..Len(keyed) |-> [post |-> keyed[i].post, score |-> keyed[i].score]])

\* a trend that falls at the odd positions
TrendFalling(i) == IF i < 3 THEN "new" ELSE IF i % 2 = 0 THEN "up" ELSE "down"

\* the trend of the item at 0-based position i
Trend(i) == IF i < 3 THEN "new" ELSE IF i % 2 = 0 THEN "up" ELSE "stable"

\* RankingItem(rank, post, score, trend, trend_value); score in hundredths
RankingItem(i, scored, max_items) ==
    [rank |-> i + 1,
     post |-> scored.post,
     score |-> Lookup(RoundedScores, scored.score),
     trend |-> Trend(i),
     trend_value |-> IF Trend(i) = "up" THEN max_items - i ELSE 0]

\* sum(item.score for item in items): doubles added from the left
RECURSIVE SumScores(_, _)
SumScores(items, n) ==
    IF n = 0 THEN FloatOfInt(0)
    ELSE FloatAdd(SumScores(items, n - 1), Lookup(ItemScores, items[n].score))

\* the body of get_ranking after deduplication
RankUnique(ranking_type, max_items, unique) ==
    With(RANKING_CONFIG[ranking_type], LAMBDA config :
    With(FirstRaise([i \in 1..Len(unique) |-> Score(unique[i], config.sort_by)], 1),
         LAMBDA scores :
        IF scores.kind = "raise" THEN scores ELSE
    With(SortDescByScore([i \in 1..Len(unique) |->
            [post |-> unique[i], score |-> scores.val[i]]]),
         LAMBDA scored_posts :
    With(Take(scored_posts, max_items), LAMBDA top :
    With([i \in 1..Len(top) |-> RankingItem(i - 1, top[i], max_items)], LAMBDA items :
    With(SumScores(items, Len(items)), LAMBDA total_engagement :
        Returns([ranking_type |-> ranking_type,
                 title |-> config.title,
                 items |-> items,
                 total_engagement |-> FloatTrunc(total_engagement),
                 avg_score |->
                    IF items = <<>> THEN 0
                    ELSE FloatRound2(Signed(total_engagement.neg,
                            FloatDiv(total_engagement.abs, Len(items))))])))))))

\* all_posts of get_ranking
RankingPosts(ranking_type, max_items, found) ==
    CollectPosts(found, RANKING_CONFIG[ranking_type].keywords, max_items, 1)

\* get_ranking(ranking_type, max_items), found what the scraper extracts
GetRanking(ranking_type, max_items, found) ==
    RankUnique(ranking_type, max_items,
               Deduplicate(RankingPosts(ranking_type, max_items, found)))

---------------------------------------------------------------------------
(* regional.py: RegionalService *)

\* the cities of City that requests of the model ask for
Cities == {"chengdu", "chongqing"}

CITY_CONFIG ==
    [c \in Cities |->
        CASE c = "chengdu" ->
                [name |-> <<"CHENG", "DU">>,
                 aliases |-> << <<"CHENG", "DU", "SHI4">>, <<"RONG", "CHENG2">> >>,
                 hot_topics |-> << <<"CHUN", "XI3", "LU">>,
                                   <<"KUAN2", "ZHAI", "XIANG4", "ZI">>,
                                   <<"DA", "XIONG", "MAO", "JI2", "DI">>,
                                   <<"JIN3", "LI">> >>,
                 specialties |-> << <<"HUO", "GUO">>, <<"CHUAN", "CHUAN">>,
                                    <<"DAN", "DAN", "MIAN">>, <<"TU", "TOU">> >>]
          [] c = "chongqing" ->
                [name |-> <<"CHONG2", "QING">>,
                 aliases |-> << <<"CHONG2", "QING", "SHI4">>, <<"SHAN", "CHENG2">> >>,
                 hot_topics |-> << <<"HONG", "YA", "DONG2">>,
                                   <<"JIE2", "FANG2", "BEI">>,
                                   <<"CI2", "QI", "KOU">>,
                                   <<"CHANG2", "JIANG", "SUO2", "DAO">> >>,
                 specialties |-> << <<"HUO", "GUO">>, <<"XIAO", "MIAN">>,
                                    <<"SUAN", "LA", "FEN2">>, <<"MAO2", "XUE", "WANG2">> >>]]

\* search_keywords of analyze_city
SearchKeywords(city_name, topic) ==
    IF topic # <<>>
    THEN << city_name \o topic, city_name \o <<" ">> \o topic >>
    ELSE << city_name \o <<"TAN", "DIAN">>, city_name \o <<"GONG", "LUE">>,
            city_name \o <<"LV", "YOU3">> >>

\* (title + content).lower() of a post
CityText(post) == Lower(post.title \o post.content)

\* topic_counts after one more matching post: a dict keeps the order in
\* which its keys were first inserted
CountTopic(counts, topic_name, engagement) ==
    IF \E i \in 1..Len(counts) : counts[i].topic = topic_name
    THEN [i \in 1..Len(counts) |->
            IF counts[i].topic = topic_name
            THEN [counts[i] EXCEPT !.count = @ + 1, !.engagement = @ + engagement]
            ELSE counts[i]]
    ELSE Append(counts, [topic |-> topic_name, count |-> 1, engagement |-> engagement])

\* the loop over hot_topics for one post, from the k-th topic on
RECURSIVE CountTopics(_, _, _, _)
CountTopics(counts, post, topics, k) ==
    IF k > Len(topics) THEN counts
    ELSE CountTopics(IF IsSubstring(Lower(topics[k]), CityText(post))
                     THEN CountTopic(counts, topics[k], ParsedEngagement(post.likes).val)
                     ELSE counts,
                     post, topics, k + 1)

\* topic_counts after the first n posts
RECURSIVE TopicCounts(_, _, _)
TopicCounts(unique, n, topics) ==
    IF n = 0 THEN <<>>
    ELSE CountTopics(TopicCounts(unique, n - 1, topics), unique[n], topics, 1)

\* the loop over specialties for one post, from the k-th specialty on
RECURSIVE FindSpecialties(_, _, _, _)
FindSpecialties(found, post, specialties, k) ==
    IF k > Len(specialties) THEN found
    ELSE FindSpecialties(IF IsSubstring(Lower(specialties[k]), CityText(post))
                            /\ ~Contains(found, specialties[k])
                         THEN Append(found, specialties[k])
                         ELSE found,
                         post, specialties, k + 1)

\* specialties_found after the first n posts
RECURSIVE SpecialtiesFound(_, _, _)
SpecialtiesFound(unique, n, specialties) ==
    IF n = 0 THEN <<>>
    ELSE FindSpecialties(SpecialtiesFound(unique, n - 1, specialties),
                         unique[n], specialties, 1)

\* author_stats after the first n posts, in order of first insertion
RECURSIVE AuthorStats(_, _)
AuthorStats(unique, n) ==
    IF n = 0 THEN <<>>
    ELSE LET stats == AuthorStats(unique, n - 1)
             author == unique[n].author
             likes == ParsedEngagement(unique[n].likes).val
         IN  IF \E i \in 1..Len(stats) : stats[i].author = author
             THEN [i \in 1..Len(stats) |->
                    IF stats[i].author = author
                    THEN [stats[i] EXCEPT !.posts_count = @ + 1, !.total_likes = @ + likes]
                    ELSE stats[i]]
             ELSE Append(stats, [author |-> author, posts_count |-> 1, total_likes |-> likes])

\* round(n / d, 2) of two integers, d > 0, in hundredths
RoundedRatio(n, d) ==
    FloatRound2(Signed(n < 0, FloatOfRatio(IF n < 0 THEN -n ELSE n, d)))

\* the body of analyze_city after deduplication
AnalyzeUnique(city, max_posts, unique) ==
    With(CITY_CONFIG[city], LAMBDA config :
    With(FirstRaise([i \in 1..(2 * Len(unique)) |->
            IF i % 2 = 1 THEN ParsedEngagement(unique[(i + 1) \div 2].likes)
            ELSE ParsedEngagement(unique[i \div 2].comments)], 1),
         LAMBDA counts :
        IF counts.kind = "raise" THEN counts ELSE
    With(TopicCounts(unique, Len(unique), config.hot_topics), LAMBDA topic_counts :
    With(AuthorStats(unique, Len(unique)), LAMBDA author_stats :
    With(SumSeq(counts.val), LAMBDA total_engagement :
        Returns([city |-> config.name,
                 total_posts |-> Len(unique),
                 posts |-> Take(unique, max_posts),
                 hot_topics |-> Take(SortDescByKey([i \in 1..Len(topic_counts) |->
                    [topic |-> topic_counts[i].topic,
                     count |-> topic_counts[i].count,
                     engagement |-> topic_counts[i].engagement,
                     key |-> topic_counts[i].engagement]]), 10),
                 specialties_mentioned |->
                    SpecialtiesFound(unique, Len(unique), config.specialties),
                 total_engagement |-> total_engagement,
                 avg_engagement |-> IF unique = <<>> THEN 0
                                    ELSE RoundedRatio(total_engagement, Len(unique)),
                 top_authors |-> Take(SortDescByKey([i \in 1..Len(author_stats) |->
                    [author |-> author_stats[i].author,
                     posts_count |-> author_stats[i].posts_count,
                     total_likes |-> author_stats[i].total_likes,
                     key |-> author_stats[i].total_likes]]), 5)]))))))

\* all_posts of analyze_city
CityPosts(city, topic, max_posts, found) ==
    CollectPosts(found, SearchKeywords(CITY_CONFIG[city].name, topic), max_posts, 1)

\* analyze_city(city, topic, max_posts), found what the scraper extracts
AnalyzeCity(city, topic, max_posts, found) ==
    AnalyzeUnique(city, max_posts, Deduplicate(CityPosts(city, topic, max_posts, found)))

---------------------------------------------------------------------------
(* Ranking and city requests *)

MaxScraped == 3

\* what the two searches of a request extract: at most MaxScraped posts
ExtractedInputs ==
    UNION {{<<SubSeq(s, 1, k), SubSeq(s, k + 1, Len(s))>> : k \in 0..Len(s)} :
                s \in SeqsUpTo(ServicePosts, MaxScraped)}

\* the API clamps max_items and max_posts to 1..20
ItemLimits == {2, 10}
Topics == {<<>>, <<"HUO", "GUO">>}

InitServices ==
    /\ extracted \in ExtractedInputs
    /\ request = NotRun
    /\ all_posts = <<>>
    /\ unique_posts = <<>>
    /\ ranking = NotRun
    /\ analysis = NotRun
    /\ pc = "input"
    /\ value = None
    /\ parsed = [analytics |-> NotRun, rankings |-> NotRun, regional |-> NotRun]
    /\ reparsed = NotRun
    /\ posts = <<>>
    /\ distribution = NotRun
    /\ hot_words = NotRun
    /\ quality = NotRun
    /\ report = NotRun
    /\ ChatIdle
    /\ RelevanceIdle
    /\ ScraperIdle
    /\ CompareIdle
    /\ ApiIdle
    /\ ScoreIdle

\* ranking_service.get_ranking(ranking_type, max_items)
CallGetRanking ==
    /\ pc = "input"
    /\ \E ranking_type \in RankingTypes, max_items \in ItemLimits :
        /\ request' = [ranking_type |-> ranking_type, max_items |-> max_items]
        /\ all_posts' = RankingPosts(ranking_type, max_items, extracted)
        /\ unique_posts' = Deduplicate(all_posts')
        /\ ranking' = RankUnique(ranking_type, max_items, unique_posts')
    /\ pc' = "ranking"
    /\ UNCHANGED <<extracted, analysis, normVars, analyticsVars, scoreVars,
                   apiVars, compareVars, scraperVars, relevanceVars, chatVars>>

\* regional_service.analyze_city(city, topic, max_posts)
CallAnalyzeCity ==
    /\ pc = "input"
    /\ \E city \in Cities, topic \in Topics, max_posts \in ItemLimits :
        /\ request' = [city |-> city, topic |-> topic, max_posts |-> max_posts]
        /\ all_posts' = CityPosts(city, topic, max_posts, extracted)
        /\ unique_posts' = Deduplicate(all_posts')
        /\ analysis' = AnalyzeUnique(city, max_posts, unique_posts')
    /\ pc' = "analysis"
    /\ UNCHANGED <<extracted, ranking, normVars, analyticsVars, scoreVars, apiVars,
                   compareVars, scraperVars, relevanceVars, chatVars>>

NextServices ==
    \/ CallGetRanking
    \/ CallAnalyzeCity

SpecServices == InitServices /\ [][NextServices]_vars

---------------------------------------------------------------------------
(* RegionalService._calculate_relevance, next to analyze_city on one post *)

\* title.lower() + " " + content.lower()
RelevanceText(post) == Lower(post.title) \o <<" ">> \o Lower(post.content)

\* the keywords of a list that occur in the text, in the order of the list
MatchedIn(keywords, text) ==
    SelectSeq(keywords, LAMBDA keyword : IsSubstring(Lower(keyword), text))

\* _calculate_relevance(post, city): score and matched_topics
CalculateRelevance(post, city) ==
    With(CITY_CONFIG[city], LAMBDA config :
    With(RelevanceText(post), LAMBDA text :
        [score |-> (IF IsSubstring(Lower(config.name), text) THEN 10 ELSE 0)
                    + 5 * Len(MatchedIn(config.aliases, text))
                    + 3 * Len(MatchedIn(config.hot_topics, text))
                    + 2 * Len(MatchedIn(config.specialties, text)),
         matched_topics |-> MatchedIn(config.hot_topics, text)
                                \o MatchedIn(config.specialties, text)]))

RelevanceTitles ==
    { <<>>, <<"HUO", "GUO">>, <<"CHENG", "DU", "SHI4", "CHUN", "XI3", "LU">>,
      <<"RONG", "CHENG2", "HUO">>, <<"CHONG2", "QING", "XIAO">> }
RelevanceContents ==
    { <<>>, <<"GUO">>, <<"MIAN", "HONG", "YA", "DONG2">>, <<"CHUAN", "CHUAN">> }

\* the posts a search finds: the same post on the pages of both keywords
RelevancePosts ==
    { Post(title, content, <<"a">>, Str(<<"6">>), Str(<<"0">>), <<>>) :
        title \in RelevanceTitles, content \in RelevanceContents }

InitRelevance ==
    /\ extracted \in {<< <<post>>, <<post>> >> : post \in RelevancePosts}
    /\ relevance = NotRun
    /\ request = NotRun
    /\ all_posts = <<>>
    /\ unique_posts = <<>>
    /\ ranking = NotRun
    /\ analysis = NotRun
    /\ pc = "input"
    /\ value = None
    /\ parsed = [analytics |-> NotRun, rankings |-> NotRun, regional |-> NotRun]
    /\ reparsed = NotRun
    /\ posts = <<>>
    /\ distribution = NotRun
    /\ hot_words = NotRun
    /\ quality = NotRun
    /\ report = NotRun
    /\ ChatIdle
    /\ ScraperIdle
    /\ CompareIdle
    /\ ApiIdle
    /\ ScoreIdle

\* service._calculate_relevance(post, city) on the post the searches find
CallCalculateRelevance ==
    /\ relevance = NotRun
    /\ \E city \in Cities :
        relevance' = [city |-> city, post |-> extracted[1][1],
                      result |-> CalculateRelevance(extracted[1][1], city)]
    /\ UNCHANGED <<pc, normVars, analyticsVars, serviceVars, scoreVars, apiVars,
                   compareVars, scraperVars, chatVars>>

NextRelevance ==
    \/ CallAnalyzeCity
    \/ CallCalculateRelevance

SpecRelevance == InitRelevance /\ [][NextRelevance]_vars

---------------------------------------------------------------------------
(* _calculate_score on posts that differ in their comment count only *)

MaxScoreCalls == 2

\* the strategies of _calculate_score; "default" stands for any other name
Strategies == {"engagement", "rising", "weekly", "default"}

InitScore ==
    /\ score_input \in [likes : ScoreLikes, sort_by : Strategies]
    /\ score_calls = <<>>
    /\ pc = "input"
    /\ value = None
    /\ parsed = [analytics |-> NotRun, rankings |-> NotRun, regional |-> NotRun]
    /\ reparsed = NotRun
    /\ posts = <<>>
    /\ distribution = NotRun
    /\ hot_words = NotRun
    /\ quality = NotRun
    /\ report = NotRun
    /\ ChatIdle
    /\ RelevanceIdle
    /\ ScraperIdle
    /\ CompareIdle
    /\ ApiIdle
    /\ extracted = <<>>
    /\ request = NotRun
    /\ all_posts = <<>>
    /\ unique_posts = <<>>
    /\ ranking = NotRun
    /\ analysis = NotRun

\* self._calculate_score(post, sort_by) for a post with the likes of
\* score_input and some comment count
CallCalculateScore ==
    /\ Len(score_calls) < MaxScoreCalls
    /\ \E comments \in ScoreComments :
        score_calls' = Append(score_calls,
            [comments |-> comments,
             score |-> CalculateScore([likes |-> score_input.likes, comments |-> comments],
                                      score_input.sort_by)])
    /\ UNCHANGED <<score_input, pc, normVars, analyticsVars, serviceVars, apiVars,
                   compareVars, scraperVars, relevanceVars, chatVars>>

NextScore == CallCalculateScore

SpecScore == InitScore /\ [][NextScore]_vars

---------------------------------------------------------------------------
(* main.py and agent.py: from the label of a ranking request to the ranking *)

\* type_mapping of the /api/ranking handler: label to RankingType
TypeMapping ==
    {<<<<"h", "o", "t">>, "hot">>,
     <<<<"r", "i", "s", "i", "n", "g">>, "rising">>,
     <<<<"b", "e", "a", "u", "t", "y">>, "beauty">>,
     <<<<"f", "a", "s", "h", "i", "o", "n">>, "fashion">>,
     <<<<"f", "o", "o", "d">>, "food">>,
     <<<<"t", "r", "a", "v", "e", "l">>, "travel">>,
     <<<<"f", "i", "t", "n", "e", "s", "s">>, "fitness">>,
     <<<<"d", "i", "g", "i", "t", "a", "l">>, "digital">>,
     <<<<"h", "o", "m", "e">>, "home">>,
     <<<<"p", "e", "t">>, "pet">>,
     <<<<"m", "o", "t", "h", "e", "r">>, "mother">>}

\* type_mapping of _parse_ranking_type: label to RankingType
AgentTypeMapping ==
    {<<<<"h", "o", "t">>, "hot">>, <<<<"RE", "MEN">>, "hot">>,
     <<<<"r", "i", "s", "i", "n", "g">>, "rising">>, <<<<"XIN2", "JIN4">>, "rising">>,
     <<<<"b", "e", "a", "u", "t", "y">>, "beauty">>, <<<<"MEI", "ZHUANG2">>, "beauty">>,
     <<<<"f", "a", "s", "h", "i", "o", "n">>, "fashion">>, <<<<"CHUAN2", "DA4">>, "fashion">>,
     <<<<"f", "o", "o", "d">>, "food">>, <<<<"MEI", "SHI7">>, "food">>,
     <<<<"t", "r", "a", "v", "e", "l">>, "travel">>, <<<<"LV", "XING">>, "travel">>,
     <<<<"f", "i", "t", "n", "e", "s", "s">>, "fitness">>, <<<<"JIAN2", "SHEN2">>, "fitness">>,
     <<<<"d", "i", "g", "i", "t", "a", "l">>, "digital">>, <<<<"SHU", "MA">>, "digital">>,
     <<<<"h", "o", "m", "e">>, "home">>, <<<<"JIA", "JU">>, "home">>,
     <<<<"p", "e", "t">>, "pet">>, <<<<"MENG", "CHONG">>, "pet">>,
     <<<<"m", "o", "t", "h", "e", "r">>, "mother">>, <<<<"MU2", "YING">>, "mother">>}

\* type_mapping.get(label.lower(), RankingType.HOT)
MappedType(type_mapping, label) ==
    With(Lower(label), LAMBDA key :
        IF \E r \in type_mapping : r[1] = key THEN Lookup(type_mapping, key) ELSE "hot")

\* RedInsightAgent._parse_ranking_type(type_name)
ParseRankingType(type_name) == MappedType(AgentTypeMapping, type_name)

\* min(max(1, request.max_items), 20)
ClampItems(n) == IF n < 1 THEN 1 ELSE IF n > 20 THEN 20 ELSE n

\* the /api/ranking handler: the ranking of the mapped type, or the
\* HTTPException that every exception of the service is turned into
ApiGetRanking(ranking_type, max_items, found) ==
    With(GetRanking(MappedType(TypeMapping, ranking_type), ClampItems(max_items), found),
         LAMBDA ranking_result :
            IF ranking_result.kind = "raise" THEN Raises("HTTPException")
            ELSE ranking_result)

MaxApiScraped == 1

\* the labels of the requests: the twelve categories, one in capitals, one
\* in Chinese, an unknown one and the empty one
Labels ==
    {<<"h", "o", "t">>, <<"r", "i", "s", "i", "n", "g">>, <<"b", "e", "a", "u", "t", "y">>, <<"f", "a", "s", "h", "i", "o", "n">>, <<"f", "o", "o", "d">>, <<"t", "r", "a", "v", "e", "l">>,
     <<"f", "i", "t", "n", "e", "s", "s">>, <<"d", "i", "g", "i", "t", "a", "l">>, <<"h", "o", "m", "e">>, <<"p", "e", "t">>, <<"m", "o", "t", "h", "e", "r">>, <<"w", "e", "e", "k", "l", "y">>,
     <<"H", "O", "T">>, <<"RE", "MEN">>, <<"t", "o", "p">>, <<>>}

\* what the two searches of a request to the API extract
ApiExtracted ==
    UNION {{<<SubSeq(s, 1, k), SubSeq(s, k + 1, Len(s))>> : k \in 0..Len(s)} :
                s \in SeqsUpTo(ServicePosts, MaxApiScraped)}

InitApi ==
    /\ extracted \in ApiExtracted
    /\ api_request \in [ranking_type : Labels, max_items : {0, 2, 25}]
    /\ api_response = NotRun
    /\ agent_type = NotRun
    /\ pc = "input"
    /\ value = None
    /\ parsed = [analytics |-> NotRun, rankings |-> NotRun, regional |-> NotRun]
    /\ reparsed = NotRun
    /\ posts = <<>>
    /\ distribution = NotRun
    /\ hot_words = NotRun
    /\ quality = NotRun
    /\ report = NotRun
    /\ ChatIdle
    /\ RelevanceIdle
    /\ ScraperIdle
    /\ CompareIdle
    /\ request = NotRun
    /\ all_posts = <<>>
    /\ unique_posts = <<>>
    /\ ranking = NotRun
    /\ analysis = NotRun
    /\ ScoreIdle

\* POST /api/ranking
CallApiGetRanking ==
    /\ api_response = NotRun
    /\ api_response' = ApiGetRanking(api_request.ranking_type, api_request.max_items,
                                     extracted)
    /\ UNCHANGED <<api_request, agent_type, pc, normVars, analyticsVars,
                   serviceVars,
                   scoreVars, compareVars, scraperVars, relevanceVars, chatVars>>

\* the agent parses the ranking type of a ranking intent
CallParseRankingType ==
    /\ agent_type = NotRun
    /\ agent_type' = Returns(ParseRankingType(api_request.ranking_type))
    /\ UNCHANGED <<api_request, api_response, pc, normVars, analyticsVars,
                   serviceVars,
                   scoreVars, compareVars, scraperVars, relevanceVars, chatVars>>

NextApi ==
    \/ CallApiGetRanking
    \/ CallParseRankingType

SpecApi == InitApi /\ [][NextApi]_vars

---------------------------------------------------------------------------
(* Two invocations of get_ranking on one RankingService, hence on its one
   RedBookScraper (rankings.py 138), interleaved at their awaits.  Each
   search is cut into five steps, every one of which ends at an await:
   the launch of the browser, the opening of the page, goto, the query of
   the page, and the closing of the browser with the rest of the loop body
   of get_ranking. *)

TaskIds == {1, 2}
TaskTypes == {"hot", "weekly"}
TaskItems == 2

\* the keyword of the k-th search of a ranking
SearchKeyword(ranking_type, k) == RANKING_CONFIG[ranking_type].keywords[k]

SiteKeywords == {SearchKeyword(t, k) : t \in TaskTypes, k \in 1..2}

\* the post the site has for a keyword, if it has one
FoundFor(keyword) ==
    <<Post(keyword \o <<"1">>, <<>>, <<"a">>, Str(<<"6">>), Str(<<"0">>), <<>>)>>

\* the site has a post for every keyword, or its pages show no card at all
SiteInputs ==
    {[keyword \in SiteKeywords |-> IF keyword \in S THEN FoundFor(keyword) ELSE <<>>] :
        S \in {SiteKeywords, {}}}

\* the browsers and the pages, named after the search that creates them
SearchIds == TaskIds \X (1..2)
NoId == <<>>

\* self.browser = None, self.page = None
NewScraper == [browser |-> NoId, page |-> NoId]

InitConcurrent ==
    /\ site \in SiteInputs
    /\ scraper = NewScraper
    /\ browsers = [b \in SearchIds |-> "none"]
    /\ pages = [g \in SearchIds |-> [browser |-> NoId, url |-> NoId]]
    /\ tasks \in [TaskIds -> {[ranking_type |-> t, pc |-> "launch", k |-> 1,
                               posts |-> <<>>, all_posts |-> <<>>, result |-> NotRun] :
                                    t \in TaskTypes}]
    /\ pc = "input"
    /\ value = None
    /\ parsed = [analytics |-> NotRun, rankings |-> NotRun, regional |-> NotRun]
    /\ reparsed = NotRun
    /\ posts = <<>>
    /\ distribution = NotRun
    /\ hot_words = NotRun
    /\ quality = NotRun
    /\ report = NotRun
    /\ ChatIdle
    /\ RelevanceIdle
    /\ extracted = <<>>
    /\ request = NotRun
    /\ all_posts = <<>>
    /\ unique_posts = <<>>
    /\ ranking = NotRun
    /\ analysis = NotRun
    /\ ScoreIdle
    /\ ApiIdle
    /\ CompareIdle

otherVars ==
    <<pc, normVars, analyticsVars, serviceVars, scoreVars, apiVars, compareVars>>

\* the browser of a page is open
PageUsable(g) == g # NoId /\ pages[g].browser # NoId /\ browsers[pages[g].browser] = "open"

\* init_browser, first half: self.browser = await ...launch(...)
LaunchBrowser(t) ==
    /\ tasks[t].pc = "launch"
    /\ browsers' = [browsers EXCEPT ![<<t, tasks[t].k>>] = "open"]
    /\ scraper' = [scraper EXCEPT !.browser = <<t, tasks[t].k>>]
    /\ tasks' = [tasks EXCEPT ![t].pc = "page"]
    /\ UNCHANGED <<site, pages, otherVars, relevanceVars, chatVars>>

\* init_browser, second half: self.context = await self.browser.new_context(),
\* self.page = await self.context.new_page(); on a closed browser the call
\* raises and search_posts goes on in its finally block
NewPage(t) ==
    /\ tasks[t].pc = "page"
    /\ IF browsers[scraper.browser] = "open"
       THEN /\ pages' = [pages EXCEPT ![<<t, tasks[t].k>>] =
                            [browser |-> scraper.browser, url |-> NoId]]
            /\ scraper' = [scraper EXCEPT !.page = <<t, tasks[t].k>>]
            /\ tasks' = [tasks EXCEPT ![t].pc = "goto"]
       ELSE /\ tasks' = [tasks EXCEPT ![t].pc = "close"]
            /\ UNCHANGED <<pages, scraper>>
    /\ UNCHANGED <<site, browsers, otherVars, relevanceVars, chatVars>>

\* await self.page.goto(search_url, ...)
Goto(t) ==
    /\ tasks[t].pc = "goto"
    /\ IF PageUsable(scraper.page)
       THEN /\ pages' = [pages EXCEPT ![scraper.page].url =
                            SearchKeyword(tasks[t].ranking_type, tasks[t].k)]
            /\ tasks' = [tasks EXCEPT ![t].pc = "query"]
       ELSE /\ tasks' = [tasks EXCEPT ![t].pc = "close"]
            /\ UNCHANGED pages
    /\ UNCHANGED <<site, scraper, browsers, otherVars, relevanceVars, chatVars>>

\* cards = await self.page.query_selector_all(selector) and the extraction
\* of the posts of the first max_posts cards
QueryPage(t) ==
    /\ tasks[t].pc = "query"
    /\ tasks' = [tasks EXCEPT
            ![t].pc = "close",
            ![t].posts =
                IF PageUsable(scraper.page) /\ pages[scraper.page].url # NoId
                THEN Take(site[pages[scraper.page].url], TaskItems)
                ELSE <<>>]
    /\ UNCHANGED <<site, scraper, browsers, pages, otherVars, relevanceVars, chatVars>>

\* what one query can find: nothing, or the posts the site has for a keyword
Findings == {<<>>} \cup {Take(FoundFor(keyword), TaskItems) : keyword \in SiteKeywords}

\* the rest of get_ranking after its searches, for every ranking and every
\* all_posts the two searches can have collected
RankedTable ==
    {<<<<ranking_type, all>>, RankUnique(ranking_type, TaskItems, Deduplicate(all))>> :
        <<ranking_type, all>> \in
            UNION {{<<t, SearchPosts(f1, SearchKeyword(t, 1), TaskItems)
                           \o SearchPosts(f2, SearchKeyword(t, 2), TaskItems)>> :
                        f1 \in Findings, f2 \in Findings} : t \in TaskTypes}}

\* the posts collected once the search of task t has returned
Collected(t) ==
    tasks[t].all_posts
        \o SearchPosts(tasks[t].posts,
                       SearchKeyword(tasks[t].ranking_type, tasks[t].k), TaskItems)

\* await self.close_browser() in the finally block, the return of
\* search_posts, all_posts.extend(...), and after the last search the rest
\* of get_ranking
CloseBrowser(t) ==
    /\ tasks[t].pc = "close"
    /\ browsers' = [browsers EXCEPT ![scraper.browser] = "closed"]
    /\ tasks' = [tasks EXCEPT ![t] =
            IF tasks[t].k < 2
            THEN [tasks[t] EXCEPT !.pc = "launch", !.k = tasks[t].k + 1,
                                  !.posts = <<>>, !.all_posts = Collected(t)]
            ELSE [tasks[t] EXCEPT !.pc = "done", !.posts = <<>>,
                                  !.all_posts = Collected(t),
                                  !.result = Lookup(RankedTable,
                                                    <<tasks[t].ranking_type, Collected(t)>>)]]
    /\ UNCHANGED <<site, scraper, pages, otherVars, relevanceVars, chatVars>>

NextConcurrent ==
    \E t \in TaskIds :
        \/ LaunchBrowser(t)
        \/ NewPage(t)
        \/ Goto(t)
        \/ QueryPage(t)
        \/ CloseBrowser(t)

SpecConcurrent == InitConcurrent /\ [][NextConcurrent]_vars

---------------------------------------------------------------------------
(* RedInsightAgent.chat: two calls on the agent of one session *)

\* the chat calls made for one session_id; main.chat hands them all to the
\* one agent it keeps for the session
ChatIds == {1, 2}

\* the action _understand_intent reads from the answer of the LLM: a
\* search, a ranking, or none (plain conversation)
ChatActions == {"search", "ranking", "none"}

\* _add_step: the step is numbered by the length of the list it is appended
\* to; call records the chat call that created it
AddExecutionStep(steps, action, status, call) ==
    Append(steps, [step |-> Len(steps) + 1, action |-> action,
                   status |-> status, call |-> call])

\* _update_step: of the step at the 0-based step_index, if there is one
UpdateStep(steps, step_index, status) ==
    IF 0 <= step_index /\ step_index < Len(steps)
    THEN [steps EXCEPT ![step_index + 1].status = status]
    ELSE steps

\* AgentResponse with steps = [asdict(s) for s in self.execution_steps];
\* success is false for the response of the except branch
AgentResponse(success, steps) ==
    [kind |-> "response", success |-> success, steps |-> steps]

\* a call in progress is suspended at one of its awaits
InProgress(c) == chats[c].pc \notin {"pending", "done"}

InitChat ==
    /\ execution_steps = <<>>
    /\ chats \in [ChatIds -> [pc : {"pending"}, action : ChatActions,
                              response : {NotRun}, alone : {TRUE}]]
    /\ RelevanceIdle
    /\ ScraperIdle
    /\ CompareIdle
    /\ ScoreIdle
    /\ ApiIdle
    /\ extracted = <<>>
    /\ request = NotRun
    /\ all_posts = <<>>
    /\ unique_posts = <<>>
    /\ ranking = NotRun
    /\ analysis = NotRun
    /\ pc = "input"
    /\ value = None
    /\ parsed = [analytics |-> NotRun, rankings |-> NotRun, regional |-> NotRun]
    /\ reparsed = NotRun
    /\ posts = <<>>
    /\ distribution = NotRun
    /\ hot_words = NotRun
    /\ quality = NotRun
    /\ report = NotRun

\* the variables chat leaves alone
chatOtherVars == <<otherVars, scraperVars, relevanceVars>>

\* chat up to its first await: self.execution_steps = [], the step
\* "thinking" is added as running, await self._understand_intent(...).
\* A call that begins while another is suspended does not run alone, and
\* neither does the suspended one.
ChatBegin(c) ==
    /\ chats[c].pc = "pending"
    /\ execution_steps' = AddExecutionStep(<<>>, "thinking", "running", c)
    /\ chats' = [d \in ChatIds |->
                    IF d = c
                    THEN [chats[c] EXCEPT
                            !.pc = "intent",
                            !.alone = \A e \in ChatIds \ {c} : ~InProgress(e)]
                    ELSE IF InProgress(d)
                         THEN [chats[d] EXCEPT !.alone = FALSE]
                         ELSE chats[d]]
    /\ UNCHANGED chatOtherVars

\* the end of the try block: the step "complete" is added as completed and
\* the response takes the steps of self.execution_steps
ChatComplete(c, steps) ==
    LET final == AddExecutionStep(steps, "complete", "completed", c) IN
    /\ execution_steps' = final
    /\ chats' = [chats EXCEPT ![c].pc = "done",
                              ![c].response = AgentResponse(TRUE, final)]

\* the except branch: the step "error" is added with status error and the
\* response takes the steps of self.execution_steps
ChatExcept(c, steps) ==
    LET final == AddExecutionStep(steps, "error", "error", c) IN
    /\ execution_steps' = final
    /\ chats' = [chats EXCEPT ![c].pc = "done",
                              ![c].response = AgentResponse(FALSE, final)]

\* _understand_intent has returned: _update_step(0, "completed"), then the
\* branch of the action up to its await. _handle_ranking adds the step
\* "ranking" and awaits get_ranking; _handle_search adds the steps
\* "searching" and "fetching" and awaits search_posts; without an action
\* the call completes.
ChatIntent(c) ==
    /\ chats[c].pc = "intent"
    /\ LET understood == UpdateStep(execution_steps, 0, "completed") IN
        CASE chats[c].action = "ranking" ->
                /\ execution_steps' =
                        AddExecutionStep(understood, "ranking", "running", c)
                /\ chats' = [chats EXCEPT ![c].pc = "ranking"]
          [] chats[c].action = "search" ->
                /\ execution_steps' =
                        AddExecutionStep(
                            AddExecutionStep(understood, "searching", "running", c),
                            "fetching", "running", c)
                /\ chats' = [chats EXCEPT ![c].pc = "searching"]
          [] OTHER -> ChatComplete(c, understood)
    /\ UNCHANGED chatOtherVars

\* get_ranking has returned: _update_step(len(self.execution_steps) - 1,
\* "completed"), and the call completes
ChatRanking(c) ==
    /\ chats[c].pc = "ranking"
    /\ ChatComplete(c, UpdateStep(execution_steps, Len(execution_steps) - 1,
                                  "completed"))
    /\ UNCHANGED chatOtherVars

\* search_posts has returned its posts (never none): the two steps before
\* the end of the list are updated, _handle_statistics adds the step
\* "analyzing", runs generate_report and updates the last step, then
\* await self._analyze_posts(...). generate_report may raise
\* (ZeroDivisionError of analyze_hot_words), which ends the call in the
\* except branch.
ChatSearch(c) ==
    /\ chats[c].pc = "searching"
    /\ LET searched == UpdateStep(execution_steps, Len(execution_steps) - 2,
                                  "completed")
           fetched == UpdateStep(searched, Len(searched) - 1, "completed")
           analyzing == AddExecutionStep(fetched, "analyzing", "running", c)
       IN  \E raised \in BOOLEAN :
            IF raised
            THEN ChatExcept(c, analyzing)
            ELSE /\ execution_steps' =
                        UpdateStep(analyzing, Len(analyzing) - 1, "completed")
                 /\ chats' = [chats EXCEPT ![c].pc = "analysis"]
    /\ UNCHANGED chatOtherVars

\* _analyze_posts has returned and the call completes
ChatAnalysis(c) ==
    /\ chats[c].pc = "analysis"
    /\ ChatComplete(c, execution_steps)
    /\ UNCHANGED chatOtherVars

\* the request to the LLM raises, in _understand_intent or in
\* _analyze_posts
ChatError(c) ==
    /\ chats[c].pc \in {"intent", "analysis"}
    /\ ChatExcept(c, execution_steps)
    /\ UNCHANGED chatOtherVars

NextChat ==
    \E c \in ChatIds :
        \/ ChatBegin(c)
        \/ ChatIntent(c)
        \/ ChatRanking(c)
        \/ ChatSearch(c)
        \/ ChatAnalysis(c)
        \/ ChatError(c)

SpecChat == InitChat /\ [][NextChat]_vars

---------------------------------------------------------------------------
(* Claims about the count normalizer, checked under Spec *)

Copies == {"analytics", "rankings", "regional"}

\* C1: the count normalizer is total: on every string, and on None and the
\* empty string, each of its three copies returns an integer and never
\* raises.
C1_NormalizerTotal ==
    \A c \in Copies : parsed[c] # NotRun => parsed[c].kind = "return"

\* C2: whenever the count normalizer returns, the count is an integer >= 0;
\* a leading minus sign never produces a negative count.
C2_NonNegative ==
    \A c \in Copies : parsed[c].kind = "return" => parsed[c].val >= 0

\* C3: normalization is idempotent through its string form:
\* normalize(str(normalize(x))) = normalize(x) whenever normalize(x) returns.
C3_Idempotent ==
    reparsed # NotRun => reparsed = parsed.analytics

\* the strings C4 speaks about: an unsigned decimal number followed by one
\* suffix character, a plain digit string, the empty string and None
C4_Suffix(v) == IF Falsy(v) THEN "" ELSE v.str[Len(v.str)]

C4_Number(v) ==
    IF Falsy(v) THEN [ok |-> FALSE]
    ELSE IF C4_Suffix(v) \in {"w", "W", "WAN", "k", "K", "QIAN"}
    THEN Unsigned(SubSeq(v.str, 1, Len(v.str) - 1))
    ELSE IF \A i \in 1..Len(v.str) : v.str[i] \in Digits
    THEN Unsigned(v.str)
    ELSE [ok |-> FALSE]

C4_Covers(v) == Falsy(v) \/ C4_Number(v).ok

\* the count C4 states: the number times 10,000 or 1,000, truncated
C4_Expected(v) ==
    IF Falsy(v) THEN 0
    ELSE LET n == C4_Number(v)
         IN  IF C4_Suffix(v) \in {"w", "W", "WAN"} THEN (n.m * 10000) \div Pow10(n.f)
             ELSE IF C4_Suffix(v) \in {"k", "K", "QIAN"} THEN (n.m * 1000) \div Pow10(n.f)
             ELSE n.m

\* C4: a decimal number followed by w/W/U+4E07 maps to the number times
\* 10,000 truncated to an integer, followed by k/K/U+5343 to the number times
\* 1,000, a plain digit string to its value, the empty string and None to 0.
C4_SuffixScaling ==
    \A c \in Copies :
        (parsed[c] # NotRun /\ C4_Covers(value)) => parsed[c] = Returns(C4_Expected(value))

\* the documented examples of C4 do hold: "2.3w", "8.5k", "1234", "", None
C4_DocumentedExamples ==
    parsed.analytics # NotRun =>
        /\ value = Str(<<"2", ".", "3", "w">>) => parsed.analytics = Returns(23000)
        /\ value = Str(<<"8", ".", "5", "k">>) => parsed.analytics = Returns(8500)
        /\ value = Str(<<"1", "2", "3", "4">>) => parsed.analytics = Returns(1234)
        /\ value = Str(<<>>) => parsed.analytics = Returns(0)
        /\ value = None => parsed.analytics = Returns(0)

---------------------------------------------------------------------------
(* Claims about the ranking and city requests, checked under SpecServices *)

\* the first 30 characters of a post's title
C6_Key(post) ==
    SubSeq(post.title, 1, IF Len(post.title) < 30 THEN Len(post.title) ELSE 30)

\* the positions in all_posts of the first post of each key
C6_Firsts ==
    {i \in 1..Len(all_posts) :
        \A j \in 1..(i - 1) : C6_Key(all_posts[j]) # C6_Key(all_posts[i])}

\* the n-th of these positions
C6_Nth(n) ==
    CHOOSE i \in C6_Firsts : Cardinality({j \in C6_Firsts : j < i}) = n - 1

\* C6: deduplication keeps, for every distinct key (first 30 characters of
\* the title), exactly the first post in input order with that key; the
\* surviving posts appear in their original relative order, and no two
\* surviving posts share a key.  The city analysis reports these survivors.
C6_DedupKeepsFirst ==
    pc \in {"ranking", "analysis"} =>
        /\ Len(unique_posts) = Cardinality(C6_Firsts)
        /\ \A n \in 1..Len(unique_posts) : unique_posts[n] = all_posts[C6_Nth(n)]
        /\ \A a, b \in 1..Len(unique_posts) :
                a # b => C6_Key(unique_posts[a]) # C6_Key(unique_posts[b])
        /\ (pc = "analysis" /\ analysis.kind = "return") =>
                /\ analysis.val.total_posts = Cardinality(C6_Firsts)
                /\ \A n \in 1..Len(analysis.val.posts) :
                        analysis.val.posts[n] = all_posts[C6_Nth(n)]
        /\ (pc = "ranking" /\ ranking.kind = "return") =>
                \A n \in 1..Len(ranking.val.items) :
                    \E i \in C6_Firsts : ranking.val.items[n].post = all_posts[i]

\* a ranking over posts two of which differ only after the 30th character
\* of the title: the later one is dropped, a post behind it survives
C6_Witness ==
    /\ pc = "ranking" /\ ranking.kind = "return"
    /\ \E i, j, k \in 1..Len(all_posts) :
        /\ i < j /\ j < k
        /\ all_posts[i].title # all_posts[j].title
        /\ Len(all_posts[j].title) > 30
        /\ C6_Key(all_posts[i]) = C6_Key(all_posts[j])
        /\ C6_Key(all_posts[k]) # C6_Key(all_posts[i])
        /\ unique_posts = <<all_posts[i], all_posts[k]>>

---------------------------------------------------------------------------
(* Claims about the analytics service, checked under SpecAnalytics *)

\* the normalized counts of a post, for collections whose counts all parse
LikesOf(post) == ParsedCount(post.likes).val
EngagementOf(post) == ParsedCount(post.likes).val + ParsedCount(post.comments).val

\* C5: generate_report completes without raising for every collection of
\* posts, also when every like count normalizes to 0 while some word occurs
\* in two or more posts.
C5_ReportNeverRaises ==
    pc = "report" => report.kind = "return"

\* the range a returned bucket stands for
RangeOfLabel(label) == CHOOSE k \in 1..Len(Ranges) : Ranges[k].label = label

\* C7: every input post is counted in exactly one bucket: the counts of the
\* returned buckets sum to the number of posts, and each bucket counts the
\* posts whose engagement e satisfies min <= e < max.
C7_EveryPostInOneBucket ==
    (pc = "distribution" /\ distribution.kind = "return") =>
        LET d == distribution.val
        IN  /\ SumSeq([n \in 1..Len(d) |-> d[n].count]) = Len(posts)
            /\ \A n \in 1..Len(d) :
                    d[n].count = Cardinality({i \in 1..Len(posts) :
                        InRange(EngagementOf(posts[i]), Ranges[RangeOfLabel(d[n].range_label)])})
            /\ \A i \in 1..Len(posts) :
                    Cardinality({n \in 1..Len(d) :
                        InRange(EngagementOf(posts[i]), Ranges[RangeOfLabel(d[n].range_label)])}) = 1

\* the sum of the returned percentages, in tenths of a percent
PercentageSum == SumSeq([n \in 1..Len(distribution.val) |-> distribution.val[n].percentage])

\* C8 as stated: for every non-empty post set the percentages of the
\* returned buckets sum to at most 100.
C8_PercentagesAtMost100 ==
    (pc = "distribution" /\ distribution.kind = "return" /\ posts # <<>>) =>
        PercentageSum <= 1000

\* C8 as amended: for every non-empty post set the percentages of the
\* returned buckets sum to at most 100 plus 0.05 for each returned bucket
\* (each percentage is rounded to one decimal on its own).
C8_PercentagesWithinRounding ==
    (pc = "distribution" /\ distribution.kind = "return" /\ posts # <<>>) =>
        2 * PercentageSum <= 2000 + Len(distribution.val)

\* a non-empty collection whose rounded percentages sum to more than 100
C8_Witness ==
    /\ pc = "distribution" /\ distribution.kind = "return" /\ posts # <<>>
    /\ PercentageSum > 1000

\* the number of posts in whose text a word occurs, and how often it occurs
\* in one post
Support(word) ==
    Cardinality({i \in 1..Len(posts) :
        Contains(ExtractWords(PostText(posts[i])), word)})

Occurrences(word, post) ==
    Cardinality({j \in 1..Len(ExtractWords(PostText(post))) :
        ExtractWords(PostText(post))[j] = word})

\* C9: a word that occurs in exactly one post, however often in it and
\* however large the post's like count, is never returned by
\* analyze_hot_words; every returned hot word has related_posts >= 2, the
\* number of posts it occurs in.
C9_HotWordsNeedTwoPosts ==
    (pc = "hot_words" /\ hot_words.kind = "return") =>
        \A n \in 1..Len(hot_words.val) :
            /\ hot_words.val[n].related_posts >= 2
            /\ hot_words.val[n].related_posts = Support(hot_words.val[n].word)

\* hot words are returned while a word that occurs twice in a single post
\* with a positive like count is left out
C9_Witness ==
    /\ pc = "hot_words" /\ hot_words.kind = "return" /\ hot_words.val # <<>>
    /\ \E i \in 1..Len(posts) :
        \E j \in 1..Len(ExtractWords(PostText(posts[i]))) :
            LET word == ExtractWords(PostText(posts[i]))[j]
            IN  /\ Occurrences(word, posts[i]) >= 2
                /\ Support(word) = 1
                /\ LikesOf(posts[i]) > 0
                /\ \A n \in 1..Len(hot_words.val) : hot_words.val[n].word # word

C10_NonNegativeLikes ==
    (pc = "hot_words" /\ hot_words.kind = "return"
        /\ \A i \in 1..Len(posts) : LikesOf(posts[i]) >= 0) =>
        \A n \in 1..Len(hot_words.val) :
            hot_words.val[n].weight >= 0 /\ hot_words.val[n].weight <= 1000

\* without a negative count every post is counted in one bucket
C7_NonNegativeCounts ==
    (pc = "distribution" /\ distribution.kind = "return"
        /\ \A i \in 1..Len(posts) : EngagementOf(posts[i]) >= 0) =>
        SumSeq([n \in 1..Len(distribution.val) |-> distribution.val[n].count]) = Len(posts)

---------------------------------------------------------------------------
(* Claims about the quality scores, under SpecAnalytics; scores are in
   tenths *)

\* the tier of a reported total score
TierOf(total_score) ==
    IF total_score >= 700 THEN "high"
    ELSE IF total_score >= 450 THEN "medium"
    ELSE "low"

\* C11: every QualityScore returned by calculate_quality_scores has the
\* viral_potential of its reported total_score: high iff total_score >= 70,
\* medium iff 45 <= total_score < 70, low otherwise.
C11_TierAgreesWithTotal ==
    (pc = "quality" /\ quality.kind = "return") =>
        \A n \in 1..Len(quality.val) :
            quality.val[n].viral_potential = TierOf(quality.val[n].total_score)

\* C12: calculate_quality_scores never raises, and every sub-score it
\* returns is in its range: engagement_score in [0,40], content_score in
\* [0,35], author_score in [0,25].
C12_SubScoresInRange ==
    pc = "quality" =>
        /\ quality.kind = "return"
        /\ \A n \in 1..Len(quality.val) :
            /\ quality.val[n].engagement_score >= 0
            /\ quality.val[n].engagement_score <= 400
            /\ quality.val[n].content_score >= 0
            /\ quality.val[n].content_score <= 350
            /\ quality.val[n].author_score >= 0
            /\ quality.val[n].author_score <= 250

\* without a negative count the sub-scores are in their ranges
C12_NonNegativeCounts ==
    (pc = "quality" /\ \A i \in 1..Len(posts) :
        LikesOf(posts[i]) >= 0 /\ ParsedCount(posts[i].comments).val >= 0) =>
        /\ quality.kind = "return"
        /\ \A n \in 1..Len(quality.val) :
            /\ quality.val[n].engagement_score >= 0
            /\ quality.val[n].engagement_score <= 400
            /\ quality.val[n].content_score >= 0
            /\ quality.val[n].content_score <= 350
            /\ quality.val[n].author_score >= 0
            /\ quality.val[n].author_score <= 250


---------------------------------------------------------------------------
(* Claims about the ranking, checked under SpecServices; item scores are in
   hundredths *)

\* the place of a ranked post in the deduplicated collection
C13_Position(post) == CHOOSE k \in 1..Len(unique_posts) : unique_posts[k] = post

\* the double _calculate_score gave a ranked post
C13_RawScore(post) == Score(post, RANKING_CONFIG[request.ranking_type].sort_by).val

\* C13: the items of a ranking are in order of descending score, items with
\* equal score are in the order their posts were collected in, and the
\* ranks are exactly 1..N with N <= max_items.
C13_RankedByScore ==
    (pc = "ranking" /\ ranking.kind = "return") =>
        /\ Len(ranking.val.items) <= request.max_items
        /\ \A i \in 1..Len(ranking.val.items) : ranking.val.items[i].rank = i
        /\ \A i, j \in 1..Len(ranking.val.items) :
            i < j =>
                /\ ranking.val.items[i].score >= ranking.val.items[j].score
                /\ ranking.val.items[i].score = ranking.val.items[j].score =>
                        C13_Position(ranking.val.items[i].post)
                            < C13_Position(ranking.val.items[j].post)

\* the same with ties taken between the unrounded scores: posts whose
\* doubles are equal keep their collection order
C13_RankedByRawScore ==
    (pc = "ranking" /\ ranking.kind = "return") =>
        /\ Len(ranking.val.items) <= request.max_items
        /\ \A i \in 1..Len(ranking.val.items) : ranking.val.items[i].rank = i
        /\ \A i, j \in 1..Len(ranking.val.items) :
            i < j =>
                /\ ranking.val.items[i].score >= ranking.val.items[j].score
                /\ ~FloatLess(C13_RawScore(ranking.val.items[i].post),
                              C13_RawScore(ranking.val.items[j].post))
                /\ ~FloatLess(C13_RawScore(ranking.val.items[j].post),
                              C13_RawScore(ranking.val.items[i].post)) =>
                        C13_Position(ranking.val.items[i].post)
                            < C13_Position(ranking.val.items[j].post)


---------------------------------------------------------------------------
(* Claims about _calculate_score, checked under SpecScore *)

\* the normalized comment count of the n-th post scored
C14_Comments(n) == ParsedLikes(score_calls[n].comments).val

\* C14: under every strategy (engagement, rising, weekly, default), of two
\* posts with the same likes the one with the higher comment count never has
\* the lower score; in particular doubling the comment count never decreases
\* the score.
C14_ScoreMonotonic ==
    \A i, j \in 1..Len(score_calls) :
        (/\ score_calls[i].score.kind = "return"
         /\ score_calls[j].score.kind = "return"
         /\ C14_Comments(i) <= C14_Comments(j)) =>
            ~FloatLess(score_calls[j].score.val, score_calls[i].score.val)

\* under the rising strategy a post is scored, then the same post with
\* twice the comments, and the second score is the higher one
C14_Witness ==
    /\ score_input.sort_by = "rising"
    /\ Len(score_calls) = 2
    /\ score_calls[1].score.kind = "return"
    /\ score_calls[2].score.kind = "return"
    /\ C14_Comments(1) > 0
    /\ C14_Comments(2) = 2 * C14_Comments(1)
    /\ FloatLess(score_calls[1].score.val, score_calls[2].score.val)


---------------------------------------------------------------------------
(* Claims about the label of a ranking request, checked under SpecApi *)

\* the twelve category labels
C15_Labels ==
    {<<"h", "o", "t">>, <<"r", "i", "s", "i", "n", "g">>, <<"w", "e", "e", "k", "l", "y">>,
     <<"b", "e", "a", "u", "t", "y">>, <<"f", "a", "s", "h", "i", "o", "n">>,
     <<"f", "o", "o", "d">>, <<"t", "r", "a", "v", "e", "l">>,
     <<"f", "i", "t", "n", "e", "s", "s">>, <<"d", "i", "g", "i", "t", "a", "l">>,
     <<"h", "o", "m", "e">>, <<"p", "e", "t">>, <<"m", "o", "t", "h", "e", "r">>}

\* the category whose label a request carries, hot for any other label
C15_Category(label) ==
    IF label \in C15_Labels
    THEN CHOOSE t \in RankingType :
            \E r \in AgentTypeMapping \cup {<<<<"w", "e", "e", "k", "l", "y">>, "weekly">>} :
                r[1] = label /\ r[2] = t
    ELSE "hot"

\* what the service answers for a category, as the API passes it on
C15_Served(t) ==
    With(GetRanking(t, ClampItems(api_request.max_items), extracted), LAMBDA r :
        IF r.kind = "raise" THEN Raises("HTTPException") ELSE r)

\* C15: a ranking request with one of the twelve category labels is
\* answered with the ranking of that category (its title, keywords and
\* scoring strategy), a request with any other label with the hot ranking;
\* the agent maps the label to the same category.
C15_LabelServed ==
    /\ api_response # NotRun =>
            api_response = C15_Served(C15_Category(api_request.ranking_type))
    /\ agent_type # NotRun =>
            agent_type = Returns(C15_Category(api_request.ranking_type))

\* the same for every label but weekly
C15_ExceptWeekly ==
    api_request.ranking_type # <<"w", "e", "e", "k", "l", "y">> => C15_LabelServed


---------------------------------------------------------------------------
(* Claims about empty and non-empty collections *)

CommentsOf(post) == ParsedCount(post.comments).val

\* the sums of the normalized likes and comments of a collection
RECURSIVE SumLikes(_)
SumLikes(ps) == IF ps = <<>> THEN 0 ELSE LikesOf(Head(ps)) + SumLikes(Tail(ps))
RECURSIVE SumComments(_)
SumComments(ps) == IF ps = <<>> THEN 0 ELSE CommentsOf(Head(ps)) + SumComments(Tail(ps))

\* C16: on the empty collection no aggregation raises: generate_report
\* returns total_posts 0, every total, average and maximum 0, empty
\* engagement_distribution, hot_words, top_tags, top_authors and
\* quality_scores and exactly one insight; the single aggregations return
\* empty lists; and compare_keywords reports avg_engagement 0 for every
\* empty cohort.  Checked under SpecCompare.
C16_EmptyDegrades ==
    /\ (posts = <<>> /\ pc = "distribution") => distribution = Returns(<<>>)
    /\ (posts = <<>> /\ pc = "hot_words") => hot_words = Returns(<<>>)
    /\ (posts = <<>> /\ pc = "quality") => quality = Returns(<<>>)
    /\ (posts = <<>> /\ pc = "report") =>
        /\ report.kind = "return"
        /\ \A f \in {"total_posts", "total_likes", "total_comments", "total_engagement",
                    "avg_likes", "avg_comments", "avg_engagement", "max_likes",
                    "max_comments"} : report.val[f] = 0
        /\ \A f \in {"engagement_distribution", "hot_words", "top_tags", "top_authors",
                    "quality_scores"} : report.val[f] = <<>>
        /\ Len(report.val.insights) = 1
    /\ pc = "compare" =>
        /\ (\A i \in 1..Len(keyword_posts) : keyword_posts[i].posts = <<>>) =>
                comparison.kind = "return"
        /\ comparison.kind = "return" =>
            \A i \in 1..Len(keyword_posts) :
                keyword_posts[i].posts = <<>> =>
                    \E n \in 1..Len(comparison.val.comparison_chart) :
                        /\ comparison.val.comparison_chart[n].keyword
                                = keyword_posts[i].keyword
                        /\ comparison.val.comparison_chart[n].posts_count = 0
                        /\ comparison.val.comparison_chart[n].avg_engagement = 0

\* the report on the empty collection has been made
C16_Witness ==
    /\ pc = "report" /\ posts = <<>>
    /\ report.kind = "return"
    /\ report.val.total_posts = 0

\* compare_keywords has met an empty cohort next to one with posts
C16_WitnessCohort ==
    /\ pc = "compare" /\ comparison.kind = "return"
    /\ \E i, j \in 1..Len(keyword_posts) :
        keyword_posts[i].posts = <<>> /\ keyword_posts[j].posts # <<>>

\* C17: for every non-empty collection generate_report returns a report with
\* at least one insight and a non-empty engagement_distribution, with
\* total_posts the number of posts and total_engagement = total_likes +
\* total_comments = the sum over the posts of the normalized likes and
\* comments.  Checked under SpecAnalytics.
C17_NonEmptyReport ==
    (pc = "report" /\ posts # <<>>) =>
        /\ report.kind = "return"
        /\ Len(report.val.insights) >= 1
        /\ report.val.engagement_distribution # <<>>
        /\ report.val.total_posts = Len(posts)
        /\ report.val.total_engagement
                = report.val.total_likes + report.val.total_comments
        /\ report.val.total_likes = SumLikes(posts)
        /\ report.val.total_comments = SumComments(posts)

\* the same for the reports that are returned on collections without a
\* negative count
C17_ReturnedNonNegative ==
    (/\ pc = "report" /\ posts # <<>>
     /\ report.kind = "return"
     /\ \A i \in 1..Len(posts) : LikesOf(posts[i]) >= 0 /\ CommentsOf(posts[i]) >= 0) =>
        /\ Len(report.val.insights) >= 1
        /\ report.val.engagement_distribution # <<>>
        /\ report.val.total_posts = Len(posts)
        /\ report.val.total_engagement
                = report.val.total_likes + report.val.total_comments
        /\ report.val.total_likes = SumLikes(posts)
        /\ report.val.total_comments = SumComments(posts)


---------------------------------------------------------------------------
(* Claims about compare_keywords, checked under SpecCompare; ratios are in
   tenths *)

\* the total engagement of the n-th cohort
C18_Total(n) == SumLikes(keyword_posts[n].posts) + SumComments(keyword_posts[n].posts)

\* the cohort of a keyword
C18_Cohort(keyword) ==
    CHOOSE n \in 1..Len(keyword_posts) : keyword_posts[n].keyword = keyword

\* the winner is a label of maximal total engagement, none without labels
C18_WinnerIsMaximal ==
    IF keyword_posts = <<>> THEN comparison.val.winner = None
    ELSE /\ ~comparison.val.winner.isNone
         /\ \E n \in 1..Len(keyword_posts) :
                /\ keyword_posts[n].keyword = comparison.val.winner.str
                /\ \A k \in 1..Len(keyword_posts) : C18_Total(k) <= C18_Total(n)

\* the chart holds the cohorts by descending total engagement
C18_ChartSorted ==
    /\ Len(comparison.val.comparison_chart) = Len(keyword_posts)
    /\ \A n \in 1..Len(keyword_posts) :
        /\ comparison.val.comparison_chart[n].total_engagement
                = C18_Total(C18_Cohort(comparison.val.comparison_chart[n].keyword))
        /\ n > 1 => comparison.val.comparison_chart[n].total_engagement
                        <= comparison.val.comparison_chart[n - 1].total_engagement

\* the formatted ratio contains "2.0"
C18_ShowsTwo(ratio) == (IF ratio < 0 THEN 0 - ratio ELSE ratio) % 100 = 20

\* two cohorts, the engagement of one exactly twice that of the other
C18_Twice ==
    /\ Len(keyword_posts) = 2
    /\ \/ C18_Total(1) = 2 * C18_Total(2)
       \/ C18_Total(2) = 2 * C18_Total(1)

\* the statement of C18 as written: the ratio is the leader's total divided
\* by the runner-up's, and "2.0" is shown whenever one cohort has twice the
\* engagement of the other
C18_RatioOfTotals ==
    (pc = "compare" /\ comparison.kind = "return") =>
        /\ C18_WinnerIsMaximal
        /\ C18_ChartSorted
        /\ Len(keyword_posts) >= 2 =>
            /\ Len(comparison.val.insights) = 1
            /\ comparison.val.comparison_chart[2].total_engagement # 0 =>
                comparison.val.insights[1].args.ratio
                    = FloatRound(FloatQuot(
                        comparison.val.comparison_chart[1].total_engagement,
                        comparison.val.comparison_chart[2].total_engagement), 1)
        /\ C18_Twice => C18_ShowsTwo(comparison.val.insights[1].args.ratio)

\* C18: compare_keywords declares as winner a label whose total engagement
\* is maximal; with at least two labels there is one insight, naming the
\* leader and the runner-up, whose ratio is the leader's total divided by
\* the runner-up's total floored at 1, rounded to one decimal; with two
\* cohorts of which one has exactly twice the engagement of the other, the
\* other's being at least 1, the ratio shown is 2.0.
C18_RatioFlooredAtOne ==
    (pc = "compare" /\ comparison.kind = "return") =>
        /\ C18_WinnerIsMaximal
        /\ C18_ChartSorted
        /\ Len(keyword_posts) < 2 => comparison.val.insights = <<>>
        /\ Len(keyword_posts) >= 2 =>
            /\ Len(comparison.val.insights) = 1
            /\ comparison.val.insights[1].args.first
                    = comparison.val.comparison_chart[1].keyword
            /\ comparison.val.insights[1].args.second
                    = comparison.val.comparison_chart[2].keyword
            /\ comparison.val.insights[1].args.ratio
                    = FloatRound(FloatQuot(
                        comparison.val.comparison_chart[1].total_engagement,
                        IF comparison.val.comparison_chart[2].total_engagement > 1
                        THEN comparison.val.comparison_chart[2].total_engagement
                        ELSE 1), 1)
        /\ (C18_Twice /\ C18_Total(1) >= 1 /\ C18_Total(2) >= 1) =>
                comparison.val.insights[1].args.ratio = 20

\* two cohorts of engagement 10 and 5 have been compared: the ratio is 2.0
C18_Witness ==
    /\ pc = "compare" /\ comparison.kind = "return"
    /\ Len(keyword_posts) = 2
    /\ C18_Total(1) = 5 /\ C18_Total(2) = 10
    /\ comparison.val.winner = Str(keyword_posts[2].keyword)
    /\ comparison.val.insights[1].args.ratio = 20


---------------------------------------------------------------------------
(* Claims about interleaved invocations, checked under SpecConcurrent *)

\* what get_ranking returns for the ranking of task t when it runs alone
C19_AloneTable ==
    {<<<<t, s>>, GetRanking(t, TaskItems,
                            <<s[SearchKeyword(t, 1)], s[SearchKeyword(t, 2)]>>)>> :
        <<t, s>> \in TaskTypes \X SiteInputs}

C19_Alone(t) == Lookup(C19_AloneTable, <<tasks[t].ranking_type, site>>)

\* C19: two invocations of get_ranking on the same service that interleave
\* at their suspension points each return what they would return alone, and
\* neither disturbs the resources of the other: the page a search works on
\* is the page it opened, in a browser that is open, and when both are done
\* no browser is left open.
C19_Isolated ==
    /\ \A t \in TaskIds : tasks[t].pc = "done" => tasks[t].result = C19_Alone(t)
    /\ \A t \in TaskIds :
        tasks[t].pc \in {"goto", "query"} =>
            /\ scraper.page = <<t, tasks[t].k>>
            /\ PageUsable(scraper.page)
    /\ (\A t \in TaskIds : tasks[t].pc = "done") =>
            \A b \in SearchIds : browsers[b] # "open"

\* the other invocation has not begun
C19_OtherIdle(t) ==
    \A u \in TaskIds \ {t} : tasks[u].pc = "launch" /\ tasks[u].k = 1

\* an invocation that runs while the other one has not begun works on its
\* own page, returns what C19_Alone says and leaves no browser open
C19_RunAlone ==
    \A t \in TaskIds :
        C19_OtherIdle(t) =>
            /\ tasks[t].pc = "done" =>
                /\ tasks[t].result = C19_Alone(t)
                /\ \A b \in SearchIds : browsers[b] # "open"
            /\ tasks[t].pc \in {"goto", "query"} =>
                /\ scraper.page = <<t, tasks[t].k>>
                /\ PageUsable(scraper.page)


\* word_stats of the posts, and the words of it that are scored
C20_WordStats == WordStats(posts, LikesOfPosts(posts).val, Len(posts))
C20_Scored == SelectScored(C20_WordStats)
C20_StatOf(word) == CHOOSE s \in Range(C20_Scored) : s.word = word

\* every returned weight is the one normalised by the maxima of maxCount
\* and maxEngagement
C20_WeightsFrom(maxCount, maxEngagement) ==
    \A n \in 1..Len(hot_words.val) :
        /\ maxEngagement # 0
        /\ hot_words.val[n].weight =
                Weight(C20_StatOf(hot_words.val[n].word), maxCount, maxEngagement)

\* C20: the maxima that normalise the hot-word weights are those of the
\* words with support in at least 2 posts, the words that are scored: every
\* returned weight is the one computed with the largest count and the
\* largest engagement among the scored words, so that words of a single
\* post do not influence it.
C20_MaximaOverScored ==
    (pc = "hot_words" /\ hot_words.kind = "return") =>
        C20_WeightsFrom(MaxCount(C20_Scored), MaxEngagement(C20_Scored))

\* the same when every word of the posts has support in at least 2 posts
C20_WithoutSingleWords ==
    (pc = "hot_words" /\ hot_words.kind = "return" /\ C20_Scored = C20_WordStats) =>
        C20_WeightsFrom(MaxCount(C20_Scored), MaxEngagement(C20_Scored))


\* the posts of an author, and the largest like count among them
C21_PostsOf(author) == {i \in 1..Len(posts) : posts[i].author = author}

C21_MaxLikes(author) ==
    CHOOSE m \in {LikesOf(posts[i]) : i \in C21_PostsOf(author)} :
        \A i \in C21_PostsOf(author) : LikesOf(posts[i]) <= m

\* top_post of the entry is the truncated title of a post of the author
\* whose like count is the highest of the author's
C21_TopPostOf(entry) ==
    \E i \in C21_PostsOf(entry.author) :
        /\ LikesOf(posts[i]) = C21_MaxLikes(entry.author)
        /\ entry.top_post = Take(posts[i].title, TopPostLen)

\* C21: for every author returned by analyze_authors, top_post is the
\* title, truncated to 40 characters, of that author's post with the
\* highest like count, whatever the like counts are, also when all posts of
\* the author have 0 likes.
C21_TopPostIsMostLiked ==
    (pc = "report" /\ report.kind = "return") =>
        \A n \in 1..Len(report.val.top_authors) :
            C21_TopPostOf(report.val.top_authors[n])

\* the same for the authors that have a post with a positive like count
C21_TopPostOfLikedAuthor ==
    (pc = "report" /\ report.kind = "return") =>
        \A n \in 1..Len(report.val.top_authors) :
            C21_MaxLikes(report.val.top_authors[n].author) > 0 =>
                C21_TopPostOf(report.val.top_authors[n])


\* the entries name no empty and no 'unknown' author
C22_Known(entries) ==
    \A n \in 1..Len(entries) : entries[n].author # <<>> /\ entries[n].author # Unknown

\* the entries are in descending order of total_likes, at most top_n of them
C22_Sorted(entries, top_n) ==
    /\ Len(entries) <= top_n
    /\ \A m, n \in 1..Len(entries) : m < n => entries[m].total_likes >= entries[n].total_likes

\* C22: the author aggregation reports no entry for posts whose author is
\* empty or the 'unknown' sentinel, in top_authors of the statistics report
\* and in top_authors of the city analysis; the returned authors are in
\* descending order of total_likes and truncated to top_n.
C22_NoUnknownAuthors ==
    /\ (pc = "report" /\ report.kind = "return") =>
            /\ C22_Known(report.val.top_authors)
            /\ C22_Sorted(report.val.top_authors, TopNAuthors)
    /\ (pc = "analysis" /\ analysis.kind = "return") =>
            /\ C22_Known(analysis.val.top_authors)
            /\ C22_Sorted(analysis.val.top_authors, 5)

\* the part of it on the statistics report, with every authored post counted
C22_ReportAuthors ==
    (pc = "report" /\ report.kind = "return") =>
        /\ C22_Known(report.val.top_authors)
        /\ C22_Sorted(report.val.top_authors, TopNAuthors)
        /\ \A i \in 1..Len(posts) :
            (posts[i].author # <<>> /\ posts[i].author # Unknown) =>
                \E n \in 1..Len(report.val.top_authors) :
                    report.val.top_authors[n].author = posts[i].author

\* the order and the length of top_authors of the city analysis
C22_CityAuthorsSorted ==
    (pc = "analysis" /\ analysis.kind = "return") =>
        C22_Sorted(analysis.val.top_authors, 5)


\* C23: the statistics report is computed over the deduplicated posts: of
\* the input posts with the same first 30 title characters only the first
\* counts in total_posts, the totals, the buckets, the hot words, the author
\* statistics and the quality scores, so that the report of the posts is
\* the report of the deduplicated posts.
C23_ReportOfUnique ==
    (pc = "report" /\ report.kind = "return") =>
        /\ report.val.total_posts = Len(Deduplicate(posts))
        /\ report = GenerateReport(Deduplicate(posts))

\* the report counts every input post, whether a title repeats or not
C23_ReportOfAll ==
    (pc = "report" /\ report.kind = "return") =>
        /\ report.val.total_posts = Len(posts)
        /\ report.val.total_likes = SumLikes(posts)
        /\ Len(report.val.quality_scores) = Len(posts)


\* C24: the trend labels of a ranking are positional: the first 3 items
\* are 'new'; of the others, those at an even 0-based position are 'up'
\* with trend_value = max_items - position and those at an odd position are
\* 'stable' with trend_value 0; so 'down' is never assigned and trend_value
\* is positive exactly for the 'up' items.
C24_TrendsPositional ==
    (pc = "ranking" /\ ranking.kind = "return") =>
        \A n \in 1..Len(ranking.val.items) :
            LET item == ranking.val.items[n]
                position == n - 1
            IN  /\ item.rank = n
                /\ position < 3 => item.trend = "new" /\ item.trend_value = 0
                /\ (position >= 3 /\ position % 2 = 0) =>
                        /\ item.trend = "up"
                        /\ item.trend_value = request.max_items - position
                /\ (position >= 3 /\ position % 2 = 1) =>
                        item.trend = "stable" /\ item.trend_value = 0
                /\ item.trend # "down"
                /\ item.trend_value > 0 <=> item.trend = "up"

\* a ranking with items of all three trends
C24_Witness ==
    /\ pc = "ranking" /\ ranking.kind = "return"
    /\ \E k, m, n \in 1..Len(ranking.val.items) :
        /\ ranking.val.items[k].trend = "new"
        /\ ranking.val.items[m].trend = "up" /\ ranking.val.items[m].trend_value > 0
        /\ ranking.val.items[n].trend = "stable"


---------------------------------------------------------------------------
(* Claims about the heat score, checked under SpecScore and SpecServices *)

\* likes * 1.0 + comments * 2.0, likes * 0.5 + comments * 3.0,
\* likes * 1.2 + comments * 1.5 or likes + comments, in hundredths
C25_Hundredths(likes, comments, sort_by) ==
    IF sort_by = "engagement" THEN 100 * likes + 200 * comments
    ELSE IF sort_by = "rising" THEN 50 * likes + 300 * comments
    ELSE IF sort_by = "weekly" THEN 120 * likes + 150 * comments
    ELSE 100 * likes + 100 * comments

\* C25: the heat score of a post follows the sort_by strategy: engagement
\* is likes * 1.0 + comments * 2.0, rising is likes * 0.5 + comments * 3.0,
\* weekly is likes * 1.2 + comments * 1.5 and any other label is
\* likes + comments, on the normalized counts; rounded to 2 decimals, as
\* RankingItem.score reports it, it is that value.
C25_ScoreByStrategy ==
    \A n \in 1..Len(score_calls) :
        score_calls[n].score.kind = "return" =>
            FloatRound2(score_calls[n].score.val) =
                C25_Hundredths(ParsedLikes(score_input.likes).val,
                               ParsedLikes(score_calls[n].comments).val,
                               score_input.sort_by)

\* a post with 6 likes is scored under the weekly strategy and, with 1
\* comment, again: 7.2 and 8.7
C25_Witness ==
    /\ score_input.sort_by = "weekly"
    /\ score_input.likes = Str(<<"6">>)
    /\ Len(score_calls) = 2
    /\ score_calls[1].comments = Str(<<"0">>)
    /\ score_calls[1].score.kind = "return"
    /\ FloatRound2(score_calls[1].score.val) = 720
    /\ score_calls[2].comments = Str(<<"1">>)
    /\ score_calls[2].score.kind = "return"
    /\ FloatRound2(score_calls[2].score.val) = 870

\* the score of every item of a ranking is the value of the strategy of the
\* ranking for the counts of its post
C25_ItemScores ==
    (pc = "ranking" /\ ranking.kind = "return") =>
        \A n \in 1..Len(ranking.val.items) :
            ranking.val.items[n].score =
                C25_Hundredths(ParsedLikes(ranking.val.items[n].post.likes).val,
                               ParsedLikes(ranking.val.items[n].post.comments).val,
                               RANKING_CONFIG[request.ranking_type].sort_by)


---------------------------------------------------------------------------
(* Claims about the insights of a report, checked under SpecAnalytics *)

\* the place of a rule in the fixed order of the rules
C26_RuleOrder(rule) ==
    CASE rule = "overall" -> 1
      [] rule \in {"very_hot", "hot"} -> 2
      [] rule = "hot_words" -> 3
      [] rule = "viral" -> 4
      [] rule = "top_author" -> 5
      [] rule = "comment_rate" -> 6
      [] OTHER -> 0

C26_Rules == {report.val.insights[n].rule : n \in 1..Len(report.val.insights)}

\* the sum of the engagements of the posts
C26_TotalEngagement == SumLikes(posts) + SumComments(posts)

\* C26: for every non-empty post set the insights are a subsequence of the
\* fixed rule order (totals, heat, hot words, viral rate, top author, comment
\* rate): the totals insight is first, at most one heat message appears,
\* the extremely-high one iff avg_engagement > 10,000 and the
\* relatively-high one iff 1,000 < avg_engagement <= 10,000, a rule that
\* does not fire leaves no entry, and the list has 1 to 6 entries.
C26_InsightsInRuleOrder ==
    (pc = "report" /\ report.kind = "return" /\ posts # <<>>) =>
        /\ Len(report.val.insights) \in 1..6
        /\ report.val.insights[1].rule = "overall"
        /\ \A n \in 1..Len(report.val.insights) :
                C26_RuleOrder(report.val.insights[n].rule) >= 1
        /\ \A m, n \in 1..Len(report.val.insights) :
                m < n => C26_RuleOrder(report.val.insights[m].rule)
                            < C26_RuleOrder(report.val.insights[n].rule)
        /\ "very_hot" \in C26_Rules <=> C26_TotalEngagement > 10000 * Len(posts)
        /\ "hot" \in C26_Rules <=>
                /\ C26_TotalEngagement > 1000 * Len(posts)
                /\ C26_TotalEngagement <= 10000 * Len(posts)

\* a report whose insights are the totals, the relatively-high heat
\* message and the top author, and no other
C26_Witness ==
    /\ pc = "report" /\ report.kind = "return" /\ posts # <<>>
    /\ Len(report.val.insights) = 3
    /\ report.val.insights[2].rule = "hot"
    /\ report.val.insights[3].rule = "top_author"


\* the number of posts with engagement of at least e
C27_PostsFrom(e) == Cardinality({i \in 1..Len(posts) : EngagementOf(posts[i]) >= e})

\* the viral-rate insights of the report
C27_Viral ==
    SelectSeq(report.val.insights, LAMBDA insight : insight.rule = "viral")

\* the sum of the percentages, in tenths, of the returned buckets from lo on
RECURSIVE C27_PercentagesFrom(_, _)
C27_PercentagesFrom(dist, lo) ==
    IF dist = <<>> THEN 0
    ELSE (IF Ranges[RangeOfLabel(Head(dist).range_label)].lo >= lo
          THEN Head(dist).percentage ELSE 0)
            + C27_PercentagesFrom(Tail(dist), lo)

\* C27: the viral-rate insight, which says that the given percentage of
\* the content has engagement above ten thousand, is emitted only when more
\* than 20% of the posts have engagement >= 10,000, and its percentage (in
\* tenths here) is the share of the posts with engagement >= 10,000.
C27_ViralRateOverTenThousand ==
    (pc = "report" /\ report.kind = "return" /\ C27_Viral # <<>>) =>
        /\ 5 * C27_PostsFrom(10000) > Len(posts)
        /\ C27_Viral[1].args[1] = C27_PercentagesFrom(report.val.engagement_distribution, 10000)

\* the insight is emitted exactly when the percentages of the buckets from
\* 5,000 on sum to more than 20, and reports that sum
C27_ViralRateOverFiveThousand ==
    (pc = "report" /\ report.kind = "return") =>
        /\ C27_Viral # <<>> <=>
                C27_PercentagesFrom(report.val.engagement_distribution, 5000) > 200
        /\ C27_Viral # <<>> =>
                /\ 5 * C27_PostsFrom(5000) > Len(posts)
                /\ C27_Viral[1].args[1] =
                        C27_PercentagesFrom(report.val.engagement_distribution, 5000)


---------------------------------------------------------------------------
(* Claims about the relevance scorer, checked under SpecRelevance *)

\* analyze_city and _calculate_relevance have both run, for the same city
C28_BothRun ==
    /\ pc = "analysis" /\ analysis.kind = "return"
    /\ relevance # NotRun /\ relevance.city = request.city
    /\ unique_posts = <<relevance.post>>

\* the keywords analyze_city counts for the post
C28_Counted ==
    {analysis.val.hot_topics[i].topic : i \in 1..Len(analysis.val.hot_topics)}
        \cup Range(analysis.val.specialties_mentioned)

\* the score of the keywords of matched_topics, of the name and the aliases
C28_ScoreOf(config, matched, text) ==
    3 * Len(SelectSeq(matched, LAMBDA k : Contains(config.hot_topics, k)))
        + 2 * Len(SelectSeq(matched, LAMBDA k : Contains(config.specialties, k)))
        + (IF IsSubstring(Lower(config.name), text) THEN 10 ELSE 0)
        + 5 * Len(MatchedIn(config.aliases, text))

\* C28: topic and specialty attribution in the city analysis agrees with
\* the relevance scorer: for every post and every hot topic or specialty of
\* the city, analyze_city counts the keyword for the post exactly when
\* _calculate_relevance records it in matched_topics (and adds 3 per topic,
\* 2 per specialty, 10 for the city name and 5 per alias to the score).
C28_AttributionAgrees ==
    C28_BothRun =>
        /\ \A keyword \in Range(CITY_CONFIG[request.city].hot_topics)
                            \cup Range(CITY_CONFIG[request.city].specialties) :
                keyword \in C28_Counted <=>
                    Contains(relevance.result.matched_topics, keyword)
        /\ relevance.result.score =
                C28_ScoreOf(CITY_CONFIG[request.city], relevance.result.matched_topics,
                            RelevanceText(relevance.post))

\* the score is the one of the matched keywords, the name and the aliases,
\* and every keyword of matched_topics is counted by analyze_city
C28_MatchedAreCounted ==
    C28_BothRun =>
        /\ \A keyword \in Range(relevance.result.matched_topics) : keyword \in C28_Counted
        /\ relevance.result.score =
                C28_ScoreOf(CITY_CONFIG[request.city], relevance.result.matched_topics,
                            RelevanceText(relevance.post))


---------------------------------------------------------------------------
(* Claims about the three copies of the count normalizer, checked under Spec *)

\* the three copies have been applied to value
C29_AllRun ==
    parsed.analytics # NotRun /\ parsed.rankings # NotRun /\ parsed.regional # NotRun

\* C29: the three copies of the count normalizer (_parse_number,
\* _parse_likes, _parse_engagement) are observationally equivalent: for
\* every input, also a string with leading or trailing whitespace, all three
\* return the same integer or all three raise.
C29_CopiesEquivalent ==
    C29_AllRun =>
        /\ parsed.analytics = parsed.rankings
        /\ parsed.rankings = parsed.regional

\* the copies of the two services that do not strip their argument agree
\* on every input, and all three agree on the inputs without a separator
\* U+001C..U+001F
C29_EquivalentWithoutSeparators ==
    C29_AllRun =>
        /\ parsed.rankings = parsed.regional
        /\ (value.isNone \/ ~Contains(value.str, "FS")) =>
                parsed.analytics = parsed.rankings


---------------------------------------------------------------------------
(* Claims about the execution steps of chat, checked under SpecChat *)

\* the chat call c has returned a response
C30_Responded(c) == chats[c].response # NotRun

\* the steps of the response of c are numbered 1..n and the last one is the
\* step "complete" or "error"
C30_Numbered(c) ==
    LET steps == chats[c].response.steps IN
    /\ Len(steps) > 0
    /\ \A i \in 1..Len(steps) : steps[i].step = i
    /\ steps[Len(steps)].action \in {"complete", "error"}

\* the steps of the response of c were all created by c, and on the
\* success path none of them is still running
C30_Own(c) ==
    LET steps == chats[c].response.steps IN
    /\ \A i \in 1..Len(steps) : steps[i].call = c
    /\ chats[c].response.success =>
            \A i \in 1..Len(steps) : steps[i].status # "running"

\* C30: every response of RedInsightAgent.chat carries only the execution
\* steps created by that call, numbered 1..n consecutively and ending with
\* a "complete" or "error" step, and on the success path no step is left
\* in status "running"; also when two chat calls for the same session_id
\* interleave at their await points.
C30_StepsOfOwnCall ==
    \A c \in ChatIds : C30_Responded(c) => C30_Numbered(c) /\ C30_Own(c)

\* the statement holds for the calls that ran while no other call on the
\* agent was in progress, and every response, interleaved or not, is
\* numbered 1..n and ends with "complete" or "error"
C30_RunAlone ==
    \A c \in ChatIds :
        C30_Responded(c) =>
            /\ C30_Numbered(c)
            /\ chats[c].alone => C30_Own(c)

===========================================================================
